---- MODULE Spec2Model ----
(***************************************************************************)
(* QMLParser: the lexer (lex) and the recursive-descent parser (Parser).   *)
(* Bytes are integers 0..255, a literal is a sequence of bytes, a token is *)
(* a record [literal, type] with the TokenType written as a string.        *)
(***************************************************************************)
EXTENDS Integers, Sequences, FiniteSets, TLC

VARIABLES
    formula,              \* lex: the input text, a sequence of bytes
    pos,                  \* lex: number of bytes the scan loop has consumed
    list,                 \* lex: std::vector<Token> list
    identifier,           \* lex: std::string identifier
    operator_byte_array,  \* lex: std::vector<uint8_t> operator_byte_array
    lexpc,                \* lex: "idle" | "scan" | "returned"
    m_TokenList,          \* Parser::m_TokenList
    m_MapToOperator,      \* Parser::m_MapToOperator, a function TokenType -> Operator or NoOp
    m_EntryPoint,         \* Parser::m_EntryPoint, the name of a rule
    m_Index,              \* Parser::m_Index
    m_LookAhead,          \* Parser::m_LookAhead
    result,               \* what the last Parser::parse call returned (NoResult before)
    trace,                \* what the last Parser::parse call did, in order
    peers                 \* the Parser instances that are run side by side

lexvars == <<formula, pos, list, identifier, operator_byte_array, lexpc>>
parvars == <<m_TokenList, m_MapToOperator, m_EntryPoint, m_Index, m_LookAhead,
             result, trace, peers>>
vars == <<formula, pos, list, identifier, operator_byte_array, lexpc,
          m_TokenList, m_MapToOperator, m_EntryPoint, m_Index, m_LookAhead,
          result, trace, peers>>

(***************************************************************************)
(* Bounds of the model.                                                    *)
(***************************************************************************)
MaxLen == 2        \* texts over every modelled byte
MaxOpLen == 3      \* texts over the bytes of the multi-byte symbols
MaxIdLen == 4      \* texts over identifier characters
MaxTokens == 2     \* token sequences over every token kind
MaxUnits == 3      \* token sequences made of atoms, operators and brackets
MaxChain == 3      \* operands of a chain of binary operators
MaxPieces == 3     \* pieces of a text given to the convenience function

(***************************************************************************)
(* Token                                                                   *)
(***************************************************************************)
TokenType ==
    {"NIL", "EOI", "ILLEGAL", "NOT", "AND", "OR", "IF", "EQ", "NEC", "POS",
     "FORALL", "EXISTS", "NOT_EXISTS", "ID", "NEQ", "VARIABLE", "IDENTIFIER",
     "LPAREN", "RPAREN", "LBRACKET", "RBRACKET", "COMMA"}

Token(literal, type) == [literal |-> literal, type |-> type]

(***************************************************************************)
(* Lexer                                                                   *)
(***************************************************************************)
Digits == 48..57

\* variable_dfa with a self-loop on '_' in state 2
variable_dfa_underscores ==
    [s \in 0..3 |->
        CASE s = 0 -> [c \in {120, 121, 122} |-> 1]
          [] s = 1 -> [c \in {95} \cup Digits |-> IF c = 95 THEN 2 ELSE 3]
          [] s = 2 -> [c \in {95} \cup Digits |-> IF c = 95 THEN 2 ELSE 3]
          [] s = 3 -> [c \in Digits |-> 3]]

\* variable_dfa[state] is the transition map of that state: its DOMAIN is the
\* set of characters the state has a transition on.
variable_dfa ==
    [s \in 0..3 |->
        CASE s = 0 -> [c \in {120, 121, 122} |-> 1]
          [] s = 1 -> [c \in {95} \cup Digits |-> IF c = 95 THEN 2 ELSE 3]
          [] s = 2 -> [c \in Digits |-> 3]
          [] s = 3 -> [c \in Digits |-> 3]]

final_states == {1, 3}

RECURSIVE isVariableFrom(_, _, _)
isVariableFrom(token, i, state) ==
    IF i > Len(token) THEN state \in final_states
    ELSE IF token[i] \notin DOMAIN variable_dfa[state] THEN FALSE
    ELSE isVariableFrom(token, i + 1, variable_dfa[state][token[i]])

isVariable(token) == isVariableFrom(token, 1, 0)

\* A lexer state is [list, identifier, operator_byte_array].
LexState(l, id, ob) == [list |-> l, identifier |-> id, operator_byte_array |-> ob]

\* writeToTokenList(std::string& token, std::vector<Token>& list)
writeToTokenList(st) ==
    IF st.identifier = <<>> THEN st
    ELSE LexState(
            Append(st.list,
                   Token(st.identifier,
                         IF isVariable(st.identifier) THEN "VARIABLE" ELSE "IDENTIFIER")),
            <<>>, st.operator_byte_array)

\* writeToTokenList(std::vector<uint8_t>& token_byte_array, TokenType type, list)
writeToTokenListBytes(st, type) ==
    IF st.operator_byte_array = <<>> THEN st
    ELSE LexState(Append(st.list, Token(st.operator_byte_array, type)),
                  st.identifier, <<>>)

isValidIdentifierSymbol(c) ==
    \/ c = 95
    \/ c = 46
    \/ (c >= 48 /\ c <= 57)
    \/ (c >= 65 /\ c <= 90)
    \/ (c >= 97 /\ c <= 122)

flush(st, type) == writeToTokenListBytes(writeToTokenList(st), type)

emplace_back(st, literal, type) ==
    LexState(Append(st.list, Token(literal, type)), st.identifier, st.operator_byte_array)

addToList(st, literal, type) == emplace_back(flush(st, "ILLEGAL"), literal, type)

push_back_op(st, c) ==
    LexState(st.list, st.identifier, Append(st.operator_byte_array, c))

initOp(st, curr) == push_back_op(flush(st, "ILLEGAL"), curr)

back(bytes) == bytes[Len(bytes)]

\* an addToOp that appends the byte whatever the buffer ends with
addToOp_unchecked(st, curr, prev) == push_back_op(st, curr)

addToOp(st, curr, prev) ==
    IF st.operator_byte_array # <<>> /\ back(st.operator_byte_array) = prev
    THEN push_back_op(st, curr)
    ELSE writeToTokenListBytes(st, "ILLEGAL")

addToOpAndFlush(st, curr, prev, type) ==
    IF st.operator_byte_array # <<>> /\ back(st.operator_byte_array) = prev
    THEN writeToTokenListBytes(push_back_op(st, curr), type)
    ELSE writeToTokenListBytes(st, "ILLEGAL")

\* the 0x84 branch with the 0x8B case emitting the token of the 0x88 case
thirdByte84_sameKind(st) ==
    IF st.operator_byte_array # <<>>
    THEN CASE back(st.operator_byte_array) = 136 ->
                writeToTokenListBytes(push_back_op(st, 132), "NOT_EXISTS")
           [] back(st.operator_byte_array) = 139 ->
                writeToTokenListBytes(push_back_op(st, 132), "NOT_EXISTS")
           [] OTHER -> writeToTokenListBytes(st, "ILLEGAL")
    ELSE writeToTokenListBytes(st, "ILLEGAL")

\* the branch of the scan loop for byte 0x84
thirdByte84(st) ==
    IF st.operator_byte_array # <<>>
    THEN CASE back(st.operator_byte_array) = 136 ->
                writeToTokenListBytes(push_back_op(st, 132), "NOT_EXISTS")
           [] back(st.operator_byte_array) = 139 ->
                writeToTokenListBytes(push_back_op(st, 132), "POS")
           [] OTHER -> writeToTokenListBytes(st, "ILLEGAL")
    ELSE writeToTokenListBytes(st, "ILLEGAL")

\* the body of the scan loop of lex, for one byte c
lexByte(st, c) ==
    CASE c = 32  -> flush(st, "ILLEGAL")
      [] c = 40  -> addToList(st, <<40>>, "LPAREN")
      [] c = 41  -> addToList(st, <<41>>, "RPAREN")
      [] c = 91  -> addToList(st, <<91>>, "LBRACKET")
      [] c = 93  -> addToList(st, <<93>>, "RBRACKET")
      [] c = 44  -> addToList(st, <<44>>, "COMMA")
      [] c = 194 -> initOp(st, 194)
      [] c = 172 -> addToOpAndFlush(st, 172, 194, "NOT")
      [] c = 226 -> initOp(st, 226)
      [] c = 134 -> addToOp(st, 134, 226)
      [] c = 146 -> addToOpAndFlush(st, 146, 134, "IF")
      [] c = 148 -> addToOpAndFlush(st, 148, 134, "EQ")
      [] c = 136 -> addToOp(st, 136, 226)
      [] c = 128 -> addToOpAndFlush(st, 128, 136, "FORALL")
      [] c = 131 -> addToOpAndFlush(st, 131, 136, "EXISTS")
      [] c = 132 -> thirdByte84(st)
      [] c = 167 -> addToOpAndFlush(st, 167, 136, "AND")
      [] c = 168 -> addToOpAndFlush(st, 168, 136, "OR")
      [] c = 137 -> addToOp(st, 137, 226)
      [] c = 160 -> addToOpAndFlush(st, 160, 137, "NEQ")
      [] c = 139 -> addToOp(st, 139, 226)
      [] c = 150 -> addToOp(st, 150, 226)
      [] c = 161 -> addToOpAndFlush(st, 161, 150, "NEC")
      [] c = 61  -> emplace_back(flush(st, "ILLEGAL"), <<61>>, "ID")
      [] isValidIdentifierSymbol(c) ->
            LexState(st.list, Append(st.identifier, c), st.operator_byte_array)
      [] OTHER -> emplace_back(st, <<c>>, "ILLEGAL")

\* the end of lex without the EOI token
lexEnd_noEOI(st) == flush(st, "ILLEGAL")

\* the end of lex: flush(ILLEGAL), then the EOI token
lexEnd(st) == emplace_back(flush(st, "ILLEGAL"), <<69, 79, 73>>, "EOI")

RECURSIVE lexFrom(_, _, _)
lexFrom(text, i, st) ==
    IF i > Len(text) THEN lexEnd(st).list
    ELSE lexFrom(text, i + 1, lexByte(st, text[i]))

\* std::vector<Token> lex(const std::string& formula)
lex(text) == lexFrom(text, 1, LexState(<<>>, <<>>, <<>>))

(***************************************************************************)
(* Operator mappings (maps.cpp)                                            *)
(***************************************************************************)
NoOp == "none"    \* std::nullopt

mapToAlethicOperator ==
    [type \in TokenType |->
        CASE type = "NOT" -> "NEGATION"
          [] type = "AND" -> "CONJUNCTION"
          [] type = "OR"  -> "DISJUNCTION"
          [] type = "IF"  -> "CONDITIONAL"
          [] type = "EQ"  -> "BICONDITIONAL"
          [] type = "NEC" -> "NECESSITY"
          [] type = "POS" -> "POSSIBILITY"
          [] OTHER -> NoOp]

\* a deontic mapping that returns the alethic operators
mapToDeonticOperator_alethic == mapToAlethicOperator

mapToDeonticOperator ==
    [type \in TokenType |->
        CASE type = "NOT" -> "NEGATION"
          [] type = "AND" -> "CONJUNCTION"
          [] type = "OR"  -> "DISJUNCTION"
          [] type = "IF"  -> "CONDITIONAL"
          [] type = "EQ"  -> "BICONDITIONAL"
          [] type = "NEC" -> "DEONTIC_NECESSITY"
          [] type = "POS" -> "DEONTIC_POSSIBILITY"
          [] OTHER -> NoOp]

mapToEpistemicOperator ==
    [type \in TokenType |->
        CASE type = "NOT" -> "NEGATION"
          [] type = "AND" -> "CONJUNCTION"
          [] type = "OR"  -> "DISJUNCTION"
          [] type = "IF"  -> "CONDITIONAL"
          [] type = "EQ"  -> "BICONDITIONAL"
          [] type = "NEC" -> "EPISTEMIC_NECESSITY"
          [] type = "POS" -> "EPISTEMIC_POSSIBILITY"
          [] OTHER -> NoOp]

(***************************************************************************)
(* Expression model: the nodes the parser constructs                       *)
(***************************************************************************)
Term(literal, type) == [literal |-> literal, type |-> type]
PredicationNode(predicate, arguments) == <<"Predication", predicate, arguments>>
IdentityNode(lhs, rhs) == <<"Identity", lhs, rhs>>
UnaryNode(op, scope) == <<"Unary", op, scope>>
BinaryNode(op, lhs, rhs) == <<"Binary", op, lhs, rhs>>
QuantificationNode(quantifier, variable, scope) == <<"Quantification", quantifier, variable, scope>>

(***************************************************************************)
(* Parser.  A parser object p is the record of the members of class Parser *)
(* plus trace, the record of what the running parse call has done.  A rule *)
(* maps p to [p, ok, val, err]: the parser afterwards and the              *)
(* std::expected it returns.  An error message is [msg, lits, inner]: the  *)
(* format string, the literals formatted into it, and the error message    *)
(* formatted into it (at most one).                                        *)
(***************************************************************************)
ParserObj(tokens, mapFunc, entry, index, lookAhead, tr) ==
    [m_TokenList |-> tokens, m_MapToOperator |-> mapFunc, m_EntryPoint |-> entry,
     m_Index |-> index, m_LookAhead |-> lookAhead, trace |-> tr]

Event(p, ev, rule, arg) ==
    [p EXCEPT !.trace = Append(@, [ev |-> ev, rule |-> rule, arg |-> arg,
                                   idx |-> p.m_Index, la |-> p.m_LookAhead])]

Err(msg, lits, inner) == [msg |-> msg, lits |-> lits, inner |-> inner]
NoErr == Err("", <<>>, <<>>)

\* what a call that recurses without end comes to: no std::expected at all
StackExhausted == "<stack exhausted>"

\* std::format(msg, lits..., inner.error()) around the error a callee returned;
\* a callee that never returns gives the caller nothing to format
Wrap(msg, lits, inner) ==
    IF inner.msg = StackExhausted THEN inner ELSE Err(msg, lits, <<inner>>)
\* std::format(msg) in place of the error a callee returned
Replace(msg, inner) ==
    IF inner.msg = StackExhausted THEN inner ELSE Err(msg, <<>>, <<>>)
NoVal == <<>>

\* return of a value / of std::unexpected from a rule
Ok(p, rule, val) ==
    [p |-> Event(p, "ret", rule, 1), ok |-> TRUE, val |-> val, err |-> NoErr]
Fail(p, rule, err) ==
    [p |-> Event(p, "ret", rule, 0), ok |-> FALSE, val |-> NoVal, err |-> err]
\* return of the std::expected r that a called rule returned
Pass(r, rule) == [r EXCEPT !.p = Event(r.p, "ret", rule, IF r.ok THEN 1 ELSE 0)]
\* entry into a rule
Call(p, rule) == Event(p, "call", rule, 0)

isTerm(type) == type = "VARIABLE" \/ type = "IDENTIFIER"
isUnaryOperator(type) == type = "NOT" \/ type = "NEC" \/ type = "POS"
isQuantifier(type) == type = "FORALL" \/ type = "EXISTS" \/ type = "NOT_EXISTS"

OutOfRange == Token(<<>>, "NIL")

\* m_TokenList.at(index): index is 0-based; an index outside the vector throws
at(p, index) ==
    IF index >= 0 /\ index < Len(p.m_TokenList) THEN p.m_TokenList[index + 1]
    ELSE OutOfRange

\* the parser after a direct m_TokenList.at(index)
Access(p, index) == Event(p, "at", "", index)

\* Parser::Parser
Parser(tokens, mapFunc) ==
    ParserObj(tokens, mapFunc, "equivalence", 0,
              IF tokens = <<>> THEN "EOI" ELSE tokens[1].type, <<>>)

\* void Parser::advance()
advance(p) ==
    IF p.m_LookAhead # "EOI"
    THEN Event([p EXCEPT !.m_Index = p.m_Index + 1,
                         !.m_LookAhead = IF p.m_Index + 1 < Len(p.m_TokenList)
                                         THEN p.m_TokenList[p.m_Index + 2].type
                                         ELSE "EOI"],
               "advance", "", p.m_Index)
    ELSE p

\* TokenType Parser::peek(int offset) const
peek(p, offset) ==
    IF p.m_Index + offset < Len(p.m_TokenList)
    THEN p.m_TokenList[p.m_Index + offset + 1].type
    ELSE "EOI"

\* const Token& Parser::getToken(size_t index) const
getToken(p, index) ==
    IF index < Len(p.m_TokenList) THEN p.m_TokenList[index + 1]
    ELSE at(p, Len(p.m_TokenList) - 1)

\* a Term built with the two kinds taken for each other
termAtCursor_swapped(p) ==
    Term(at(p, p.m_Index).literal,
         IF at(p, p.m_Index).type = "VARIABLE" THEN "CONSTANT" ELSE "VARIABLE")

\* the Term built from the token at the cursor
termAtCursor(p) ==
    Term(at(p, p.m_Index).literal,
         IF at(p, p.m_Index).type = "VARIABLE" THEN "VARIABLE" ELSE "CONSTANT")

\* a restore that sets the cursor back to the first token
restore_toStart(p, backtracking_point) ==
    Event([Access(p, 0) EXCEPT !.m_Index = 0, !.m_LookAhead = at(p, 0).type],
          "restore", "predication", p.m_Index)

\* a rollback that sets the index back and leaves the lookahead as it is
restore_keepLookAhead(p, backtracking_point) ==
    Event([p EXCEPT !.m_Index = backtracking_point], "restore", "predication", p.m_Index)

\* m_Index = backtracking_point; m_LookAhead = m_TokenList.at(m_Index).type
restore(p, backtracking_point) ==
    Event([Access(p, backtracking_point) EXCEPT
              !.m_Index = backtracking_point,
              !.m_LookAhead = at(p, backtracking_point).type],
          "restore", "predication", p.m_Index)

RECURSIVE predication_loop(_, _, _, _)

\* a loop that returns its errors with the cursor where the error was found
predication_loop_noRestore(p, backtracking_point, predicate, arguments) ==
    IF peek(p, 0) = "COMMA"
    THEN IF peek(p, 1) # "IDENTIFIER" /\ peek(p, 1) # "VARIABLE"
         THEN Fail(p, "predication",
                   Err("Expected term after ',' but got '{}'",
                       <<getToken(p, p.m_Index + 1).literal>>, <<>>))
         ELSE predication_loop(advance(Access(advance(p), p.m_Index + 1)), backtracking_point,
                               predicate,
                               Append(arguments, termAtCursor(Access(advance(p), p.m_Index + 1))))
    ELSE IF peek(p, 0) # "RPAREN"
         THEN Fail(p, "predication",
                   Err("Expected ')' after argument list but got '{}'",
                       <<getToken(p, p.m_Index).literal>>, <<>>))
         ELSE Ok(advance(p), "predication", PredicationNode(predicate, arguments))

\* the while loop of Parser::predication and what follows it
predication_loop(p, backtracking_point, predicate, arguments) ==
    IF peek(p, 0) = "COMMA"
    THEN IF peek(p, 1) # "IDENTIFIER" /\ peek(p, 1) # "VARIABLE"
         THEN Fail(restore(p, backtracking_point), "predication",
                   Err("Expected term after ',' but got '{}'",
                       <<getToken(p, p.m_Index + 1).literal>>, <<>>))
         ELSE LET p1 == Access(advance(p), p.m_Index + 1)
              IN  predication_loop(advance(p1), backtracking_point, predicate,
                                   Append(arguments, termAtCursor(p1)))
    ELSE IF peek(p, 0) # "RPAREN"
         THEN Fail(restore(p, backtracking_point), "predication",
                   Err("Expected ')' after argument list but got '{}'",
                       <<getToken(p, p.m_Index).literal>>, <<>>))
         ELSE Ok(advance(p), "predication", PredicationNode(predicate, arguments))

\* Parser::predication
predication(p0) ==
    LET p == Call(p0, "predication") IN
    IF peek(p, 0) # "IDENTIFIER" THEN Fail(p, "predication", NoErr)
    ELSE IF peek(p, 1) # "LPAREN" THEN Fail(p, "predication", NoErr)
    ELSE IF ~isTerm(peek(p, 2))
    THEN Fail(p, "predication",
              Err("Expected term after '(' but got '{}'",
                  <<getToken(p, p.m_Index + 2).literal>>, <<>>))
    ELSE IF peek(p, 3) # "RPAREN" /\ peek(p, 3) # "COMMA"
    THEN Fail(p, "predication",
              Err("Expected ',' or ')' after term '{}' but got '{}'",
                  <<getToken(p, p.m_Index + 2).literal,
                    getToken(p, p.m_Index + 3).literal>>, <<>>))
    ELSE LET backtracking_point == p.m_Index
             predicate == at(p, p.m_Index).literal
             p1 == Access(advance(advance(Access(p, p.m_Index))), p.m_Index + 2)
         IN  predication_loop(advance(p1), backtracking_point, predicate,
                              <<termAtCursor(p1)>>)

\* Parser::identity
identity(p0) ==
    LET p == Call(p0, "identity") IN
    IF peek(p, 0) # "IDENTIFIER" /\ peek(p, 0) # "VARIABLE" THEN Fail(p, "identity", NoErr)
    ELSE IF peek(p, 1) # "ID" THEN Fail(p, "identity", NoErr)
    ELSE IF peek(p, 2) # "IDENTIFIER" /\ peek(p, 2) # "VARIABLE"
    THEN Fail(p, "identity",
              Err("Expected singular term in RHS of '=' but got '{}'",
                  <<getToken(p, p.m_Index + 2).literal>>, <<>>))
    ELSE LET p1 == Access(p, p.m_Index)
             lhs == termAtCursor(p1)
             p2 == Access(advance(advance(p1)), p.m_Index + 2)
             rhs == termAtCursor(p2)
         IN  Ok(advance(p2), "identity", IdentityNode(lhs, rhs))

\* an inequality that negates with NEGATION whatever the mapping says
inequality_fixedNegation(p0) ==
    LET p == Call(p0, "inequality") IN
    IF peek(p, 0) # "IDENTIFIER" /\ peek(p, 0) # "VARIABLE" THEN Fail(p, "inequality", NoErr)
    ELSE IF peek(p, 1) # "NEQ" THEN Fail(p, "inequality", NoErr)
    ELSE IF peek(p, 2) # "IDENTIFIER" /\ peek(p, 2) # "VARIABLE"
    THEN Fail(p, "inequality",
              Err("Expected singular term in RHS of NEQ but got '{}'",
                  <<getToken(p, p.m_Index + 1).literal>>, <<>>))
    ELSE LET p1 == Access(p, p.m_Index)
             p2 == Access(advance(advance(p1)), p.m_Index + 2)
         IN  Ok(advance(p2), "inequality",
                UnaryNode("NEGATION", IdentityNode(termAtCursor(p1), termAtCursor(p2))))

\* Parser::inequality
inequality(p0) ==
    LET p == Call(p0, "inequality") IN
    IF peek(p, 0) # "IDENTIFIER" /\ peek(p, 0) # "VARIABLE" THEN Fail(p, "inequality", NoErr)
    ELSE IF peek(p, 1) # "NEQ" THEN Fail(p, "inequality", NoErr)
    ELSE IF peek(p, 2) # "IDENTIFIER" /\ peek(p, 2) # "VARIABLE"
    THEN Fail(p, "inequality",
              Err("Expected singular term in RHS of NEQ but got '{}'",
                  <<getToken(p, p.m_Index + 1).literal>>, <<>>))
    ELSE LET p1 == Access(p, p.m_Index)
             lhs == termAtCursor(p1)
             p2 == Access(advance(advance(p1)), p.m_Index + 2)
             rhs == termAtCursor(p2)
             p3 == advance(p2)
             id == IdentityNode(lhs, rhs)
             op == p.m_MapToOperator["NOT"]
         IN  IF op # NoOp THEN Ok(p3, "inequality", UnaryNode(op, id))
             ELSE Fail(p3, "inequality",
                       Err("Non-existent map for token type NOT", <<>>, <<>>))

\* an atomic rule that goes on to the next production when one has failed
atomic_tryEach(p0) ==
    LET p == Call(p0, "atomic")
        asPredication == predication(p)
        asIdentity == identity(asPredication.p)
        asInequality == inequality(asIdentity.p)
    IN  IF asPredication.ok THEN Pass(asPredication, "atomic")
        ELSE IF asIdentity.ok THEN Pass(asIdentity, "atomic")
        ELSE Pass(asInequality, "atomic")

\* Parser::atomic
atomic(p0) ==
    LET p == Call(p0, "atomic") IN
    IF peek(p, 0) # "IDENTIFIER" /\ peek(p, 0) # "VARIABLE" THEN Fail(p, "atomic", NoErr)
    ELSE IF peek(p, 1) = "LPAREN"
    THEN Pass(predication(p), "atomic")
    ELSE IF peek(p, 1) = "ID"
    THEN Pass(identity(p), "atomic")
    ELSE IF peek(p, 1) = "NEQ"
    THEN Pass(inequality(p), "atomic")
    ELSE Fail(p, "atomic",
              Err("Expected '(', '=', or NEQ after '{}' but got '{}'",
                  <<getToken(p, p.m_Index).literal,
                    getToken(p, p.m_Index + 1).literal>>, <<>>))

RECURSIVE equivalence(_), equivalence_loop(_, _), implication(_), implication_loop(_, _)
RECURSIVE conjunction_disjunction(_), conjunction_disjunction_loop(_, _)
RECURSIVE clause(_), quantificational(_), unary(_), CallRule(_, _)

\* m_EntryPoint(*this): the ParseFunction is one of the public rules
CallRule(rule, p) ==
    CASE rule = "equivalence" -> equivalence(p)
      [] rule = "implication" -> implication(p)
      [] rule = "conjunction_disjunction" -> conjunction_disjunction(p)
      [] rule = "clause" -> clause(p)
      [] rule = "quantificational" -> quantificational(p)
      [] rule = "unary" -> unary(p)
      [] rule = "atomic" -> atomic(p)
      [] rule = "predication" -> predication(p)
      [] rule = "identity" -> identity(p)
      [] rule = "inequality" -> inequality(p)

\* a turn of the loop that builds the node without looking at what the
\* mapping returned
equivalence_fold_unchecked(op, lhs, rhs) ==
    IF ~rhs.ok
    THEN Fail(rhs.p, "equivalence",
              Wrap("Expected clause after EQ but got : {}", <<>>, rhs.err))
    ELSE equivalence_loop(rhs.p, BinaryNode(op, lhs, rhs.val))

\* one turn of the while loop of Parser::equivalence, from the rhs parsed
equivalence_fold(op, lhs, rhs) ==
    IF ~rhs.ok
    THEN Fail(rhs.p, "equivalence",
              Wrap("Expected clause after EQ but got : {}", <<>>, rhs.err))
    ELSE IF op # NoOp
    THEN equivalence_loop(rhs.p, BinaryNode(op, lhs, rhs.val))
    ELSE Fail(rhs.p, "equivalence", Err("Non-existent map for token type EQ", <<>>, <<>>))

\* the while loop of Parser::equivalence and the return after it
equivalence_loop(p, lhs) ==
    IF peek(p, 0) = "EQ"
    THEN equivalence_fold(p.m_MapToOperator["EQ"], lhs, implication(advance(p)))
    ELSE Ok(p, "equivalence", lhs)

\* Parser::equivalence, from the lhs parsed
equivalence_lhs(lhs) ==
    IF ~lhs.ok THEN Fail(lhs.p, "equivalence", lhs.err)
    ELSE equivalence_loop(lhs.p, lhs.val)

\* Parser::equivalence
equivalence(p0) == equivalence_lhs(implication(Call(p0, "equivalence")))

\* one turn of the while loop of Parser::implication, from the rhs parsed
implication_fold(op, lhs, rhs) ==
    IF ~rhs.ok
    THEN Fail(rhs.p, "implication",
              Wrap("Expected clause after IF but got : {}", <<>>, rhs.err))
    ELSE IF op # NoOp
    THEN implication_loop(rhs.p, BinaryNode(op, lhs, rhs.val))
    ELSE Fail(rhs.p, "implication", Err("Non-existent map for token type IMP", <<>>, <<>>))

\* a turn that returns its fold at once
implication_fold_return(op, lhs, rhs) ==
    IF ~rhs.ok
    THEN Fail(rhs.p, "implication",
              Wrap("Expected clause after IF but got : {}", <<>>, rhs.err))
    ELSE IF op # NoOp
    THEN Ok(rhs.p, "implication", BinaryNode(op, lhs, rhs.val))
    ELSE Fail(rhs.p, "implication", Err("Non-existent map for token type IMP", <<>>, <<>>))

\* an implication loop that parses all of the rest as its right operand
implication_loop_right(p, lhs) ==
    IF peek(p, 0) = "IF"
    THEN implication_fold_return(p.m_MapToOperator["IF"], lhs, implication(advance(p)))
    ELSE Ok(p, "implication", lhs)

\* the while loop of Parser::implication and the return after it
implication_loop(p, lhs) ==
    IF peek(p, 0) = "IF"
    THEN implication_fold(p.m_MapToOperator["IF"], lhs, conjunction_disjunction(advance(p)))
    ELSE Ok(p, "implication", lhs)

\* Parser::implication, from the lhs parsed
implication_lhs(lhs) ==
    IF ~lhs.ok THEN Fail(lhs.p, "implication", lhs.err)
    ELSE implication_loop(lhs.p, lhs.val)

\* Parser::implication
implication(p0) == implication_lhs(conjunction_disjunction(Call(p0, "implication")))

\* one turn of the while loop of Parser::conjunction_disjunction, from the
\* rhs parsed
conjunction_disjunction_fold(currentToken, op, lhs, rhs) ==
    IF ~rhs.ok
    THEN Fail(rhs.p, "conjunction_disjunction",
              Wrap("Expected clause after '{}' but got : {}",
                   <<currentToken.literal>>, rhs.err))
    ELSE conjunction_disjunction_loop(rhs.p, BinaryNode(op, lhs, rhs.val))

\* a conjunction/disjunction loop that folds with the operator of AND whatever
\* token it consumed
conjunction_disjunction_loop_sameOp(p, lhs) ==
    IF peek(p, 0) = "OR" \/ peek(p, 0) = "AND"
    THEN LET currentToken == getToken(p, p.m_Index)
             op == p.m_MapToOperator["AND"]
         IN  IF op = NoOp
             THEN Fail(p, "conjunction_disjunction",
                       Err("Non-existent map for token type AND", <<>>, <<>>))
             ELSE conjunction_disjunction_fold(currentToken, op, lhs, clause(advance(p)))
    ELSE Ok(p, "conjunction_disjunction", lhs)

\* the while loop of Parser::conjunction_disjunction and the return after it
conjunction_disjunction_loop(p, lhs) ==
    IF peek(p, 0) = "OR" \/ peek(p, 0) = "AND"
    THEN LET currentToken == getToken(p, p.m_Index)
             op == IF currentToken.type = "OR" THEN p.m_MapToOperator["OR"]
                                               ELSE p.m_MapToOperator["AND"]
             opName == IF currentToken.type = "OR" THEN "OR" ELSE "AND"
         IN  IF op = NoOp
             THEN Fail(p, "conjunction_disjunction",
                       Err("Non-existent map for token type " \o opName, <<>>, <<>>))
             ELSE conjunction_disjunction_fold(currentToken, op, lhs, clause(advance(p)))
    ELSE Ok(p, "conjunction_disjunction", lhs)

\* Parser::conjunction_disjunction, from the lhs parsed
conjunction_disjunction_lhs(lhs) ==
    IF ~lhs.ok THEN Fail(lhs.p, "conjunction_disjunction", lhs.err)
    ELSE conjunction_disjunction_loop(lhs.p, lhs.val)

\* Parser::conjunction_disjunction
conjunction_disjunction(p0) ==
    conjunction_disjunction_lhs(clause(Call(p0, "conjunction_disjunction")))

\* the entry rules that reach clause() before they read or move the cursor
ReachesClause == {"equivalence", "implication", "conjunction_disjunction", "clause"}

\* clause() re-enters itself with the cursor unmoved: the opening bracket is
\* read through getToken's clamp to the last token while m_LookAhead is EOI,
\* so advance() does nothing and the entry rule comes back to the same
\* bracket.  The recursion never returns; the call ends by exhausting the stack.
Diverges(p) == p.m_LookAhead = "EOI" /\ p.m_EntryPoint \in ReachesClause

\* a bracket branch that takes either closing bracket for either opening one
clause_closer_any(currentToken, closer, closerName, res) ==
    IF ~res.ok THEN Fail(res.p, "clause", res.err)
    ELSE IF peek(res.p, 0) # "RPAREN" /\ peek(res.p, 0) # "RBRACKET"
    THEN Fail(res.p, "clause",
              Err("Expected '" \o closerName \o "' after '{}' but got '{}'",
                  <<currentToken.literal, getToken(res.p, res.p.m_Index).literal>>,
                  <<>>))
    ELSE Ok(advance(res.p), "clause", res.val)

\* a bracket branch that returns a node of its own around what it encloses
clause_closer_ownNode(currentToken, closer, closerName, res) ==
    IF ~res.ok THEN Fail(res.p, "clause", res.err)
    ELSE IF peek(res.p, 0) # closer
    THEN Fail(res.p, "clause",
              Err("Expected '" \o closerName \o "' after '{}' but got '{}'",
                  <<currentToken.literal, getToken(res.p, res.p.m_Index).literal>>,
                  <<>>))
    ELSE Ok(advance(res.p), "clause", <<"Bracket", closerName, res.val>>)

\* a bracket branch of Parser::clause, from the result of the entry rule
clause_closer(currentToken, closer, closerName, res) ==
    IF ~res.ok THEN Fail(res.p, "clause", res.err)
    ELSE IF peek(res.p, 0) # closer
    THEN Fail(res.p, "clause",
              Err("Expected '" \o closerName \o "' after '{}' but got '{}'",
                  <<currentToken.literal, getToken(res.p, res.p.m_Index).literal>>,
                  <<>>))
    ELSE Ok(advance(res.p), "clause", res.val)

\* bracket branches that parse what they enclose as an equivalence
clause_bracket_equivalence(p, currentToken, closer, closerName) ==
    IF Diverges(p) THEN Fail(p, "clause", Err(StackExhausted, <<>>, <<>>))
    ELSE clause_closer(currentToken, closer, closerName,
                       CallRule("equivalence", advance(p)))

\* the two bracket branches of Parser::clause: closer is RPAREN or RBRACKET
clause_bracket(p, currentToken, closer, closerName) ==
    IF Diverges(p) THEN Fail(p, "clause", Err(StackExhausted, <<>>, <<>>))
    ELSE clause_closer(currentToken, closer, closerName,
                       CallRule(p.m_EntryPoint, advance(p)))

\* a clause that passes over a token it cannot place and goes on with the next
clause_dispatch_skipIllegal(p, currentToken) ==
    IF isTerm(currentToken.type) THEN Pass(atomic(p), "clause")
    ELSE IF isUnaryOperator(currentToken.type) THEN Pass(unary(p), "clause")
    ELSE IF isQuantifier(currentToken.type) THEN Pass(quantificational(p), "clause")
    ELSE IF currentToken.type = "LPAREN"
    THEN clause_bracket(p, currentToken, "RPAREN", ")")
    ELSE IF currentToken.type = "LBRACKET"
    THEN clause_bracket(p, currentToken, "RBRACKET", "]")
    ELSE IF currentToken.type = "ILLEGAL" THEN Pass(clause(advance(p)), "clause")
    ELSE Fail(p, "clause", Err("Unexpected token ({})", <<currentToken.literal>>, <<>>))

\* Parser::clause, from the token at the cursor
clause_dispatch(p, currentToken) ==
    IF isTerm(currentToken.type) THEN Pass(atomic(p), "clause")
    ELSE IF isUnaryOperator(currentToken.type) THEN Pass(unary(p), "clause")
    ELSE IF isQuantifier(currentToken.type) THEN Pass(quantificational(p), "clause")
    ELSE IF currentToken.type = "LPAREN"
    THEN clause_bracket(p, currentToken, "RPAREN", ")")
    ELSE IF currentToken.type = "LBRACKET"
    THEN clause_bracket(p, currentToken, "RBRACKET", "]")
    ELSE Fail(p, "clause", Err("Unexpected token ({})", <<currentToken.literal>>, <<>>))

\* Parser::clause
clause(p0) == clause_dispatch(Call(p0, "clause"), getToken(p0, p0.m_Index))

\* a quantificational rule that forgets the negation of the negated quantifier
quantificational_scope_unnegated(quantifier, negated, variable, op, res) ==
    IF ~res.ok THEN Fail(res.p, "quantificational", res.err)
    ELSE Ok(res.p, "quantificational",
            QuantificationNode(quantifier, variable, res.val))

\* Parser::quantificational, from the result of clause()
quantificational_scope(quantifier, negated, variable, op, res) ==
    IF ~res.ok THEN Fail(res.p, "quantificational", res.err)
    ELSE IF negated
    THEN IF op # NoOp
         THEN Ok(res.p, "quantificational",
                 UnaryNode(op, QuantificationNode(quantifier, variable, res.val)))
         ELSE Fail(res.p, "quantificational",
                   Err("Non-existent map for token type NOT", <<>>, <<>>))
    ELSE Ok(res.p, "quantificational",
            QuantificationNode(quantifier, variable, res.val))

\* Parser::quantificational, from the consumption of the quantifier on
quantificational_consume(p) ==
    LET quantifier == IF at(p, p.m_Index).type = "FORALL"
                      THEN "UNIVERSAL" ELSE "EXISTENTIAL"
        negated == at(p, p.m_Index).type = "NOT_EXISTS"
        p1 == Access(advance(Access(p, p.m_Index)), p.m_Index + 1)
        variable == Term(at(p1, p1.m_Index).literal, "VARIABLE")
    IN  quantificational_scope(quantifier, negated, variable, p.m_MapToOperator["NOT"],
                               clause(advance(p1)))

\* Parser::quantificational, from its first test on
quantificational_checks(p) ==
    IF peek(p, 0) # "FORALL" /\ peek(p, 0) # "EXISTS" /\ peek(p, 0) # "NOT_EXISTS"
    THEN Fail(p, "quantificational", NoErr)
    ELSE IF peek(p, 1) # "VARIABLE"
    THEN Fail(p, "quantificational",
              Err("Expected variable after '{}' but got '{}'",
                  <<getToken(p, p.m_Index).literal,
                    getToken(p, p.m_Index + 1).literal>>, <<>>))
    ELSE quantificational_consume(p)

\* Parser::quantificational
quantificational(p0) == quantificational_checks(Call(p0, "quantificational"))

\* Parser::unary, from the result of clause()
unary_scope(op, opName, res) ==
    IF ~res.ok
    THEN Fail(res.p, "unary",
              Replace("Expected clause after unary operator " \o opName, res.err))
    ELSE Ok(res.p, "unary", UnaryNode(op, res.val))

\* a unary rule whose operand is a whole conjunction/disjunction
unary_wideScope(p, currentToken) ==
    IF ~isUnaryOperator(peek(p, 0)) THEN Fail(p, "unary", NoErr)
    ELSE LET op == p.m_MapToOperator[currentToken.type]
         IN  IF op = NoOp
             THEN Fail(p, "unary", Err("Non-existent map for unary operator", <<>>, <<>>))
             ELSE unary_scope(op, "", conjunction_disjunction(advance(p)))

\* Parser::unary, from its first test on
unary_checks(p, currentToken) ==
    IF ~isUnaryOperator(peek(p, 0)) THEN Fail(p, "unary", NoErr)
    ELSE LET op == IF currentToken.type = "NOT" THEN p.m_MapToOperator["NOT"]
                   ELSE IF currentToken.type = "POS" THEN p.m_MapToOperator["POS"]
                   ELSE p.m_MapToOperator["NEC"]
             opName == IF currentToken.type = "NOT" THEN "NOT"
                       ELSE IF currentToken.type = "POS" THEN "POS"
                       ELSE "NEC"
         IN  IF op = NoOp
             THEN Fail(p, "unary",
                       Err("Non-existent map for unary operator " \o opName, <<>>, <<>>))
             ELSE unary_scope(op, opName, clause(advance(p)))

\* Parser::unary
unary(p0) == unary_checks(Call(p0, "unary"), getToken(p0, p0.m_Index))

\* a sentence wrapper that returns whatever the entry rule returned
sentence_noEOICheck(res) ==
    IF ~res.ok THEN Fail(res.p, "sentence", res.err)
    ELSE Ok(res.p, "sentence", res.val)

\* Parser::sentence, from the result of the entry rule
sentence_result(res) ==
    IF ~res.ok THEN Fail(res.p, "sentence", res.err)
    ELSE IF peek(res.p, 0) # "EOI"
    THEN Fail(res.p, "sentence",
              Err("Unexpected symbol ({})",
                  <<getToken(res.p, res.p.m_Index).literal>>, <<>>))
    ELSE Ok(res.p, "sentence", res.val)

\* Parser::sentence
sentence(p0) == sentence_result(CallRule(p0.m_EntryPoint, Call(p0, "sentence")))

\* a parse that starts where the call before it left the cursor
parse_keepCursor(p, entryPoint) ==
    Event(ParserObj(p.m_TokenList, p.m_MapToOperator, entryPoint, p.m_Index, p.m_LookAhead, <<>>),
          "reset", "parse", IF p.m_Index = 0 THEN 0 ELSE 1)

\* the parser at the start of Parser::parse: cursor reset, entry point stored.
\* The event tells whether the call found the cursor away from the first token.
parse_reset(p, entryPoint) ==
    Event(ParserObj(p.m_TokenList, p.m_MapToOperator, entryPoint, 0,
                    IF p.m_TokenList = <<>> THEN "EOI" ELSE p.m_TokenList[1].type, <<>>),
          "reset", "parse", IF p.m_Index = 0 THEN 0 ELSE 1)

\* a parse that goes to the grammar whatever the token sequence
parse_noEmptyCheck(p) == Pass(sentence(p), "parse")

\* Parser::parse, from the reset of the cursor on
parse_begin(p) ==
    IF p.m_TokenList = <<>>
    THEN Fail(p, "parse", Err("Empty input string, nothing to do", <<>>, <<>>))
    ELSE Pass(sentence(p), "parse")

\* Parser::parse
parse(p0, entryPoint) == parse_begin(parse_reset(p0, entryPoint))

(***************************************************************************)
(* The texts the lexer is run on.                                          *)
(***************************************************************************)
SeqsUpTo(S, n) == UNION {[1..k -> S] : k \in 0..n}

\* the bytes of the multi-byte symbols: C2 AC E2 86 92 94 88 80 83 84 A7 A8 89 A0 8B 96 A1
OpBytes == {194, 172, 226, 134, 146, 148, 136, 128, 131, 132, 167, 168, 137, 160, 139, 150, 161}
\* space ( ) [ ] , =
PunctBytes == {32, 40, 41, 91, 93, 44, 61}
\* x y z 1 2 _ . a
IdBytes == {120, 121, 122, 49, 50, 95, 46, 97}
\* bytes no branch of the scan matches: # and 0xFF
OtherBytes == {35, 255}
Bytes == OpBytes \cup PunctBytes \cup IdBytes \cup OtherBytes

\* the bytes of a multi-byte symbol with an identifier character or an
\* unmatched byte put between two of them
InterleavedTexts ==
    {SubSeq(bytes, 1, k) \o <<c>> \o SubSeq(bytes, k + 1, Len(bytes)) :
        bytes \in {<<194, 172>>, <<226, 134, 146>>, <<226, 136, 128>>, <<226, 139, 132>>},
        k \in 1..2, c \in {97, 35}}

LexInputs ==
    SeqsUpTo(Bytes, MaxLen) \cup SeqsUpTo(OpBytes, MaxOpLen) \cup SeqsUpTo(IdBytes, MaxIdLen)
        \cup InterleavedTexts

NoResult == [ok |-> FALSE, val |-> NoVal, err |-> Err("no result", <<>>, <<>>)]

\* no Parser has been constructed by the caller that is followed alone
SelfIdle ==
    /\ m_TokenList = <<>>
    /\ m_MapToOperator = [t \in TokenType |-> NoOp]
    /\ m_EntryPoint = "equivalence"
    /\ m_Index = 0
    /\ m_LookAhead = "NIL"
    /\ result = NoResult
    /\ trace = <<>>

ParserIdle == SelfIdle /\ peers = <<>>

\* lex is called on a text: the locals of lines 198-200
LexInit ==
    /\ formula \in LexInputs
    /\ pos = 0
    /\ list = <<>>
    /\ identifier = <<>>
    /\ operator_byte_array = <<>>
    /\ lexpc = "scan"
    /\ ParserIdle

\* one iteration of the scan loop
LexStep ==
    /\ lexpc = "scan"
    /\ pos < Len(formula)
    /\ LET st == lexByte(LexState(list, identifier, operator_byte_array), formula[pos + 1])
       IN  /\ list' = st.list
           /\ identifier' = st.identifier
           /\ operator_byte_array' = st.operator_byte_array
    /\ pos' = pos + 1
    /\ UNCHANGED <<formula, lexpc>>
    /\ UNCHANGED parvars

\* the loop is over: flush, append EOI, return list
LexReturn ==
    /\ lexpc = "scan"
    /\ pos = Len(formula)
    /\ LET st == lexEnd(LexState(list, identifier, operator_byte_array))
       IN  /\ list' = st.list
           /\ identifier' = st.identifier
           /\ operator_byte_array' = st.operator_byte_array
    /\ lexpc' = "returned"
    /\ UNCHANGED <<formula, pos>>
    /\ UNCHANGED parvars

LexNext == LexStep \/ LexReturn

Spec == LexInit /\ [][LexNext]_vars

(***************************************************************************)
(* The token sequences and mappings the parser is run on.                  *)
(***************************************************************************)
RECURSIVE Flatten(_)
Flatten(ss) == IF ss = <<>> THEN <<>> ELSE Head(ss) \o Flatten(Tail(ss))

\* the literal of a token of the given kind at (1-based) position i: terms
\* and ILLEGAL tokens get a literal of their own at each position
LiteralAt(kind, i) ==
    CASE kind = "IDENTIFIER" -> <<64 + i>>
      [] kind = "VARIABLE"   -> <<120, 48 + (i % 10)>>
      [] kind = "ILLEGAL"    -> <<35, 48 + (i % 10)>>
      [] kind = "NIL"        -> <<>>
      [] kind = "EOI"        -> <<69, 79, 73>>
      [] kind = "LPAREN"     -> <<40>>
      [] kind = "RPAREN"     -> <<41>>
      [] kind = "LBRACKET"   -> <<91>>
      [] kind = "RBRACKET"   -> <<93>>
      [] kind = "COMMA"      -> <<44>>
      [] kind = "ID"         -> <<61>>
      [] kind = "NOT"        -> <<194, 172>>
      [] kind = "IF"         -> <<226, 134, 146>>
      [] kind = "EQ"         -> <<226, 134, 148>>
      [] kind = "FORALL"     -> <<226, 136, 128>>
      [] kind = "EXISTS"     -> <<226, 136, 131>>
      [] kind = "NOT_EXISTS" -> <<226, 136, 132>>
      [] kind = "AND"        -> <<226, 136, 167>>
      [] kind = "OR"         -> <<226, 136, 168>>
      [] kind = "NEQ"        -> <<226, 137, 160>>
      [] kind = "POS"        -> <<226, 139, 132>>
      [] kind = "NEC"        -> <<226, 150, 161>>

Tokens(kinds) == [i \in 1..Len(kinds) |-> Token(LiteralAt(kinds[i], i), kinds[i])]

\* P(a)  P(x, a)  a = x  x /= a
Atoms ==
    { <<"IDENTIFIER", "LPAREN", "IDENTIFIER", "RPAREN">>,
      <<"IDENTIFIER", "LPAREN", "VARIABLE", "COMMA", "IDENTIFIER", "RPAREN">>,
      <<"IDENTIFIER", "ID", "VARIABLE">>,
      <<"VARIABLE", "NEQ", "IDENTIFIER">> }

\* the pieces token sequences are put together from
Units ==
    { <<"IDENTIFIER", "ID", "VARIABLE">>,
      <<"IDENTIFIER", "LPAREN", "VARIABLE", "RPAREN">>,
      <<"NOT">>, <<"FORALL", "VARIABLE">>,
      <<"AND">>, <<"IF">>, <<"EQ">>,
      <<"LPAREN">>, <<"RPAREN">>, <<"LBRACKET">>, <<"RBRACKET">>,
      <<"IDENTIFIER">> }

\* operands of chains: an atom, a modal formula, a quantification
Operands ==
    { <<"IDENTIFIER", "LPAREN", "VARIABLE", "RPAREN">>,
      <<"NEC", "VARIABLE", "NEQ", "IDENTIFIER">>,
      <<"FORALL", "VARIABLE", "IDENTIFIER", "LPAREN", "VARIABLE", "RPAREN">> }

BinaryKinds == {"AND", "OR", "IF", "EQ"}

\* o1 op1 o2 op2 ... on
Chain(operands, ops) ==
    Flatten([i \in 1..(2 * Len(operands) - 1) |->
                IF i % 2 = 1 THEN operands[(i + 1) \div 2] ELSE <<ops[i \div 2]>>])

RawKindSeqs == SeqsUpTo(TokenType, MaxTokens)
UnitKindSeqs == {Flatten(us) \o <<"EOI">> : us \in SeqsUpTo(Units, MaxUnits)}
AtomKindSeqs == {a \o <<"EOI">> : a \in Atoms}
ChainKindSeqs ==
    UNION { {Chain(os, ops) \o <<"EOI">> : os \in [1..n -> Operands], ops \in [1..(n - 1) -> BinaryKinds]}
            : n \in 2..MaxChain }

\* alethic mapping without an entry for the kinds in missing
PartialMapping(missing) ==
    [type \in TokenType |-> IF type \in missing THEN NoOp ELSE mapToAlethicOperator[type]]

StockMappings == {mapToAlethicOperator, mapToDeonticOperator, mapToEpistemicOperator}
PartialMappings ==
    {PartialMapping({k}) : k \in {"NOT", "AND", "OR", "IF", "EQ", "NEC", "POS"}}
        \cup {PartialMapping(TokenType)}

\* the token sequences every mapping is tried on: the empty one, the atoms,
\* an atom under each unary operator and each quantifier, and the chains of
\* two operands
MappingKindSeqs ==
    {<<>>} \cup AtomKindSeqs
        \cup {<<u>> \o a \o <<"EOI">> : u \in {"NOT", "POS", "NEC"}, a \in Atoms}
        \cup {<<q, "VARIABLE">> \o a \o <<"EOI">> :
                  q \in {"FORALL", "EXISTS", "NOT_EXISTS"}, a \in Atoms}
        \cup {Chain(os, ops) \o <<"EOI">> : os \in [1..2 -> Operands], ops \in [1..1 -> BinaryKinds]}

\* t1 = t2 and t1 /= t2 for terms of either kind
TermPairKindSeqs ==
    {<<t1, r, t2, "EOI">> : t1 \in {"IDENTIFIER", "VARIABLE"}, r \in {"ID", "NEQ"},
                            t2 \in {"IDENTIFIER", "VARIABLE"}}

\* a term and '=' or the inequality sign with no term after it
TermGapKindSeqs ==
    {<<t1, r>> \o gap \o <<"EOI">> : t1 \in {"IDENTIFIER", "VARIABLE"}, r \in {"ID", "NEQ"},
                                   gap \in {<<>>, <<"RPAREN">>, <<"NEQ">>}}

\* a variable in the place of the predicate symbol of a predication
VariableSymbolKindSeqs ==
    {<<"VARIABLE", "LPAREN">> \o arguments \o <<"RPAREN", "EOI">> :
        arguments \in {<<>>, <<"VARIABLE">>}}

\* a predicate symbol and '(' with no, one or two arguments, closed or cut
\* short in the ways that predication tells apart, alone or under a negation
PredicationKindSeqs ==
    {prefix \o <<"IDENTIFIER", "LPAREN">> \o arguments \o tail \o <<"EOI">> :
        prefix \in {<<>>, <<"NOT">>},
        arguments \in {<<>>, <<"VARIABLE">>, <<"IDENTIFIER", "COMMA", "VARIABLE">>},
        tail \in {<<"RPAREN">>, <<>>, <<"COMMA">>, <<"COMMA", "RPAREN">>, <<"ID">>,
                  <<"RBRACKET">>}}

\* a chain of two operands in round or square brackets
BracketKindSeqs ==
    {<<b[1]>> \o Chain(os, ops) \o <<b[2], "EOI">> :
        b \in {<<"LPAREN", "RPAREN">>, <<"LBRACKET", "RBRACKET">>},
        os \in [1..2 -> Operands], ops \in [1..1 -> BinaryKinds]}

ParserCases ==
    ((RawKindSeqs \cup UnitKindSeqs \cup AtomKindSeqs \cup ChainKindSeqs \cup BracketKindSeqs
        \cup PredicationKindSeqs \cup TermGapKindSeqs \cup VariableSymbolKindSeqs)
        \X {mapToAlethicOperator})
    \cup ((MappingKindSeqs \cup TermPairKindSeqs) \X (StockMappings \cup PartialMappings))

EntryRules ==
    {"equivalence", "implication", "conjunction_disjunction", "clause", "quantificational",
     "unary", "atomic", "predication", "identity", "inequality"}

LexerIdle ==
    /\ formula = <<>>
    /\ pos = 0
    /\ list = <<>>
    /\ identifier = <<>>
    /\ operator_byte_array = <<>>
    /\ lexpc = "idle"

\* the parser object the state variables hold
Self == ParserObj(m_TokenList, m_MapToOperator, m_EntryPoint, m_Index, m_LookAhead, trace)

\* a Parser is constructed from a token sequence and a mapping
ParserInit ==
    /\ LexerIdle
    /\ \E c \in ParserCases :
          LET p == Parser(Tokens(c[1]), c[2]) IN
          /\ m_TokenList = p.m_TokenList
          /\ m_MapToOperator = p.m_MapToOperator
          /\ m_EntryPoint = p.m_EntryPoint
          /\ m_Index = p.m_Index
          /\ m_LookAhead = p.m_LookAhead
          /\ trace = p.trace
    /\ result = NoResult
    /\ peers = <<>>

\* the parser and the caller after parse has returned r
Returns(r) ==
    /\ m_EntryPoint' = r.p.m_EntryPoint
    /\ m_Index' = r.p.m_Index
    /\ m_LookAhead' = r.p.m_LookAhead
    /\ trace' = r.p.trace
    /\ result' = [ok |-> r.ok, val |-> r.val, err |-> r.err]

\* what the caller of parse gets from the call r
Outcome(r) == [ok |-> r.ok, val |-> r.val, err |-> r.err]

\* one call of Parser::parse(entryPoint), on a fresh or an already used parser
Parse(entryPoint) ==
    /\ lexpc = "idle"
    /\ Returns(parse(Self, entryPoint))
    /\ UNCHANGED <<m_TokenList, m_MapToOperator, peers>>
    /\ UNCHANGED lexvars

ParserNext == \E entryPoint \in EntryRules : Parse(entryPoint)

SpecParser == ParserInit /\ [][ParserNext]_vars

(***************************************************************************)
(* The convenience function parse(formula, entryPoint, mapFunction): lex,  *)
(* then Parser(tokens, mapFunction).parse(entryPoint).  The texts are put  *)
(* together from pieces: letters, an argument list, operators, a byte no   *)
(* branch of lex matches, and the first two bytes of a three-byte symbol.  *)
(***************************************************************************)
TextPieces ==
    { <<80>>, <<120>>, <<40, 120, 41>>, <<61>>, <<194, 172>>, <<226, 136, 128>>,
      <<35>>, <<226, 136>> }

TextInputs == {Flatten(ps) : ps \in SeqsUpTo(TextPieces, MaxPieces)}

TextMappings == StockMappings \cup {PartialMapping({"NOT"}), PartialMapping(TokenType)}

\* parse(formula, ...) is called: lex starts on the text
TextInit ==
    /\ formula \in TextInputs
    /\ pos = 0
    /\ list = <<>>
    /\ identifier = <<>>
    /\ operator_byte_array = <<>>
    /\ lexpc = "scan"
    /\ ParserIdle

\* lex has returned tokens: Parser(tokens, mapFunction).parse(entryPoint)
ParseText(entryPoint, mapFunction) ==
    /\ lexpc = "returned"
    /\ result = NoResult
    /\ Returns(parse(Parser(list, mapFunction), entryPoint))
    /\ m_TokenList' = list
    /\ m_MapToOperator' = mapFunction
    /\ UNCHANGED <<lexvars, peers>>

TextNext ==
    \/ LexStep
    \/ LexReturn
    \/ \E entryPoint \in EntryRules, mapFunction \in TextMappings :
          ParseText(entryPoint, mapFunction)

SpecText == TextInit /\ [][TextNext]_vars

(***************************************************************************)
(* Two Parser instances side by side.  Each instance is a record of its    *)
(* own copies of the members (m_TokenList is held by value); a call of     *)
(* parse on an instance is taken one step at a time, a step being one      *)
(* entry into a rule, one return, one element access, one advance() or the *)
(* restore of predication, and the steps of the two calls are interleaved  *)
(* in any order.  given is what the instance was constructed from, done    *)
(* the number of steps its call has taken.                                 *)
(***************************************************************************)
Instance(tokens, mapFunc) ==
    [given |-> <<tokens, mapFunc>>,
     m_TokenList |-> tokens, m_MapToOperator |-> mapFunc,
     m_EntryPoint |-> Parser(tokens, mapFunc).m_EntryPoint,
     m_Index |-> Parser(tokens, mapFunc).m_Index,
     m_LookAhead |-> Parser(tokens, mapFunc).m_LookAhead,
     done |-> 0, result |-> NoResult]

\* the members of the instance o as a parser object
InstanceObj(o) ==
    ParserObj(o.m_TokenList, o.m_MapToOperator, o.m_EntryPoint, o.m_Index, o.m_LookAhead, <<>>)

\* the instance o with the cursor and entry rule of the parser object p
WithMembers(o, p) ==
    [o EXCEPT !.m_EntryPoint = p.m_EntryPoint, !.m_Index = p.m_Index,
              !.m_LookAhead = p.m_LookAhead]

\* the call of parse that the instance o is in: its steps and what it returns
InstanceRun(o) == parse(Parser(o.m_TokenList, o.m_MapToOperator), o.m_EntryPoint)

\* the members of o after the step e of its call
stepMembers(o, e) ==
    CASE e.ev = "advance" -> WithMembers(o, advance(InstanceObj(o)))
      [] e.ev = "restore" -> WithMembers(o, restore(InstanceObj(o), e.idx))
      [] OTHER -> o

\* the instance o after the next step of its call run; the last step is the
\* return of parse
stepOf(o, run) ==
    [stepMembers(o, run.p.trace[o.done + 1]) EXCEPT
        !.done = o.done + 1,
        !.result = IF o.done + 1 = Len(run.p.trace) THEN Outcome(run) ELSE @]

\* instances whose cursor is one variable shared by all of them
instanceStep_sharedCursor(ps, i) ==
    [j \in DOMAIN ps |->
        IF j = i THEN stepOf(ps[i], InstanceRun(ps[i]))
        ELSE WithMembers(ps[j], [InstanceObj(stepOf(ps[i], InstanceRun(ps[i])))
                                    EXCEPT !.m_EntryPoint = ps[j].m_EntryPoint])]

\* the instances after instance i has taken the next step of its call
instanceStep(ps, i) == [ps EXCEPT ![i] = stepOf(ps[i], InstanceRun(ps[i]))]

\* the instances after instance i has entered parse(entryPoint): lines 48-51
instanceCall(ps, i, entryPoint) ==
    [ps EXCEPT ![i] = [WithMembers(ps[i], parse_reset(InstanceObj(ps[i]), entryPoint))
                          EXCEPT !.done = 1]]

\* the token sequences and mappings the instances are constructed from
PairKindSeqs ==
    { <<>>,
      <<"IDENTIFIER", "ID", "VARIABLE", "AND", "IDENTIFIER", "LPAREN", "VARIABLE", "RPAREN", "EOI">>,
      <<"NOT", "LPAREN", "VARIABLE", "NEQ", "IDENTIFIER", "RPAREN", "EOI">>,
      <<"IDENTIFIER", "LPAREN", "VARIABLE", "COMMA", "IDENTIFIER", "EOI">> }
PairMappings == {mapToAlethicOperator, PartialMapping({"NOT"})}
PairEntryRules == {"equivalence", "predication"}
Instances == {1, 2}

PairInit ==
    /\ LexerIdle
    /\ SelfIdle
    /\ \E ks \in [Instances -> PairKindSeqs], ms \in [Instances -> PairMappings] :
          peers = [i \in Instances |-> Instance(Tokens(ks[i]), ms[i])]

\* instance i enters parse(entryPoint)
InstanceCall(i, entryPoint) ==
    /\ peers[i].done = 0
    /\ peers' = instanceCall(peers, i, entryPoint)
    /\ UNCHANGED <<lexvars, m_TokenList, m_MapToOperator, m_EntryPoint, m_Index, m_LookAhead,
                   result, trace>>

\* the call on instance i takes its next step
InstanceStep(i) ==
    /\ peers[i].done > 0
    /\ peers[i].result = NoResult
    /\ peers' = instanceStep(peers, i)
    /\ UNCHANGED <<lexvars, m_TokenList, m_MapToOperator, m_EntryPoint, m_Index, m_LookAhead,
                   result, trace>>

PairNext ==
    \E i \in Instances :
        \/ \E entryPoint \in PairEntryRules : InstanceCall(i, entryPoint)
        \/ InstanceStep(i)

SpecPair == PairInit /\ [][PairNext]_vars

(***************************************************************************)
(* Lexer claims                                                            *)
(***************************************************************************)
Types(l) == [i \in 1..Len(l) |-> l[i].type]

\* the symbol table: canonical UTF-8 bytes and token kind
SymbolTable ==
    { [bytes |-> <<61>>,            kind |-> "ID"],
      [bytes |-> <<194, 172>>,      kind |-> "NOT"],
      [bytes |-> <<226, 134, 146>>, kind |-> "IF"],
      [bytes |-> <<226, 134, 148>>, kind |-> "EQ"],
      [bytes |-> <<226, 136, 128>>, kind |-> "FORALL"],
      [bytes |-> <<226, 136, 131>>, kind |-> "EXISTS"],
      [bytes |-> <<226, 136, 132>>, kind |-> "NOT_EXISTS"],
      [bytes |-> <<226, 136, 167>>, kind |-> "AND"],
      [bytes |-> <<226, 136, 168>>, kind |-> "OR"],
      [bytes |-> <<226, 137, 160>>, kind |-> "NEQ"],
      [bytes |-> <<226, 139, 132>>, kind |-> "POS"],
      [bytes |-> <<226, 150, 161>>, kind |-> "NEC"] }

MultiByteSymbols == {s \in SymbolTable : Len(s.bytes) > 1}
SymbolKinds == {s.kind : s \in MultiByteSymbols}

\* C1: lex always returns, and what it returns is a non-empty token sequence
\* whose last token is EOI and that holds no EOI at any other position.
C1_LexEndsInOneEOI ==
    /\ pos <= Len(formula)
    /\ lexpc = "scan" => ENABLED LexNext
    /\ lexpc = "returned" =>
          /\ Len(list) >= 1
          /\ list[Len(list)].type = "EOI"
          /\ \A i \in 1..(Len(list) - 1) : list[i].type # "EOI"

C1_Witness ==
    /\ lexpc = "returned"
    /\ Len(formula) = 2
    /\ Types(list) = <<"ILLEGAL", "IDENTIFIER", "EOI">>

\* C2: lex of the canonical bytes of each of the 12 symbols returns exactly
\* the token of the matching kind followed by EOI.
C2_SymbolRoundTrip ==
    \A s \in SymbolTable :
        (lexpc = "returned" /\ formula = s.bytes) =>
            /\ Types(list) = <<s.kind, "EOI">>
            /\ list[1].literal = s.bytes

C2_Witness ==
    /\ lexpc = "returned"
    /\ formula = <<226, 139, 132>>
    /\ Types(list) = <<"POS", "EOI">>

IsTruncation(f, b) ==
    \/ \E k \in 1..(Len(b) - 1) : f = SubSeq(b, 1, k)
    \/ \E k \in 2..Len(b) : f = SubSeq(b, k, Len(b))

IsReordering(f, b) ==
    /\ f # b
    /\ \E p \in Permutations(1..Len(b)) : f = [i \in 1..Len(b) |-> b[p[i]]]

\* C3: lex of a truncated or reordered multi-byte symbol returns at least one
\* ILLEGAL token and no token of a symbol kind.
C3_BrokenSymbolIsIllegal ==
    \A s \in MultiByteSymbols :
        (lexpc = "returned" /\ (IsTruncation(formula, s.bytes) \/ IsReordering(formula, s.bytes))) =>
            /\ \E i \in 1..Len(list) : list[i].type = "ILLEGAL"
            /\ \A i \in 1..Len(list) : list[i].type \notin SymbolKinds

\* the three shapes of a variable name
VarPattern(s) ==
    /\ Len(s) >= 1
    /\ s[1] \in {120, 121, 122}
    /\ \/ Len(s) = 1
       \/ \A i \in 2..Len(s) : s[i] \in Digits
       \/ Len(s) >= 3 /\ s[2] = 95 /\ \A i \in 3..Len(s) : s[i] \in Digits

IsIdentifierRun(f) ==
    /\ f # <<>>
    /\ \A i \in 1..Len(f) : isValidIdentifierSymbol(f[i])

\* C4: an identifier run is emitted as VARIABLE exactly when it has one of the
\* three shapes of a variable name, and as IDENTIFIER otherwise.
C4_VariableClassification ==
    /\ \A i \in 1..Len(list) :
          list[i].type \in {"VARIABLE", "IDENTIFIER"} =>
              (list[i].type = "VARIABLE" <=> VarPattern(list[i].literal))
    /\ (lexpc = "returned" /\ IsIdentifierRun(formula)) =>
          /\ Types(list) = <<IF VarPattern(formula) THEN "VARIABLE" ELSE "IDENTIFIER", "EOI">>
          /\ list[1].literal = formula

C4_Witness ==
    /\ lexpc = "returned"
    /\ formula = <<121, 95, 49>>
    /\ Types(list) = <<"VARIABLE", "EOI">>

(***************************************************************************)
(* Parser claims                                                           *)
(***************************************************************************)
Kinds(tokens) == [i \in 1..Len(tokens) |-> tokens[i].type]

\* a parse call has returned
Parsed == lexpc = "idle" /\ result # NoResult

\* the token sequence holds exactly one EOI, as its last token
EndsInSingleEOI(tokens) ==
    /\ tokens # <<>>
    /\ tokens[Len(tokens)].type = "EOI"
    /\ \A i \in 1..(Len(tokens) - 1) : tokens[i].type # "EOI"

\* the tokens before the closing EOI
Body(tokens) == SubSeq(tokens, 1, Len(tokens) - 1)

StockMapping == m_MapToOperator \in StockMappings

(***************************************************************************)
(* The grammar of the specification, as a recogniser on sequences of token *)
(* kinds: Deriv<rule>(ks) holds iff ks is derivable from <rule>, with the  *)
(* brackets of clause enclosing an equivalence.                            *)
(***************************************************************************)
DerivTerm(k) == k \in {"IDENTIFIER", "VARIABLE"}

\* term (',' term)*
DerivTermList(ks) ==
    /\ Len(ks) % 2 = 1
    /\ \A i \in 1..Len(ks) : IF i % 2 = 1 THEN DerivTerm(ks[i]) ELSE ks[i] = "COMMA"

DerivPredication(ks) ==
    /\ Len(ks) >= 4
    /\ ks[1] = "IDENTIFIER" /\ ks[2] = "LPAREN" /\ ks[Len(ks)] = "RPAREN"
    /\ DerivTermList(SubSeq(ks, 3, Len(ks) - 1))

DerivIdentity(ks) == Len(ks) = 3 /\ DerivTerm(ks[1]) /\ ks[2] = "ID" /\ DerivTerm(ks[3])
DerivInequality(ks) == Len(ks) = 3 /\ DerivTerm(ks[1]) /\ ks[2] = "NEQ" /\ DerivTerm(ks[3])
DerivAtomic(ks) == DerivPredication(ks) \/ DerivIdentity(ks) \/ DerivInequality(ks)

RECURSIVE DerivEquivalence(_), DerivImplication(_), DerivConjDisj(_), DerivClause(_)

DerivClause(ks) ==
    \/ DerivAtomic(ks)
    \/ Len(ks) >= 2 /\ ks[1] \in {"NOT", "NEC", "POS"} /\ DerivClause(Tail(ks))
    \/ /\ Len(ks) >= 3 /\ ks[1] \in {"FORALL", "EXISTS", "NOT_EXISTS"} /\ ks[2] = "VARIABLE"
       /\ DerivClause(SubSeq(ks, 3, Len(ks)))
    \/ /\ Len(ks) >= 3 /\ ks[1] = "LPAREN" /\ ks[Len(ks)] = "RPAREN"
       /\ DerivEquivalence(SubSeq(ks, 2, Len(ks) - 1))
    \/ /\ Len(ks) >= 3 /\ ks[1] = "LBRACKET" /\ ks[Len(ks)] = "RBRACKET"
       /\ DerivEquivalence(SubSeq(ks, 2, Len(ks) - 1))

DerivConjDisj(ks) ==
    \/ DerivClause(ks)
    \/ \E k \in 2..(Len(ks) - 1) :
          /\ ks[k] \in {"AND", "OR"}
          /\ DerivClause(SubSeq(ks, k + 1, Len(ks)))
          /\ DerivConjDisj(SubSeq(ks, 1, k - 1))

DerivImplication(ks) ==
    \/ DerivConjDisj(ks)
    \/ \E k \in 2..(Len(ks) - 1) :
          /\ ks[k] = "IF"
          /\ DerivConjDisj(SubSeq(ks, k + 1, Len(ks)))
          /\ DerivImplication(SubSeq(ks, 1, k - 1))

DerivEquivalence(ks) ==
    \/ DerivImplication(ks)
    \/ \E k \in 2..(Len(ks) - 1) :
          /\ ks[k] = "EQ"
          /\ DerivImplication(SubSeq(ks, k + 1, Len(ks)))
          /\ DerivEquivalence(SubSeq(ks, 1, k - 1))

BinaryLevels == {"equivalence", "implication", "conjunction_disjunction"}

LevelOps(level) ==
    CASE level = "equivalence" -> {"EQ"}
      [] level = "implication" -> {"IF"}
      [] level = "conjunction_disjunction" -> {"AND", "OR"}

LooserOps(level) ==
    CASE level = "equivalence" -> {}
      [] level = "implication" -> {"EQ"}
      [] level = "conjunction_disjunction" -> {"EQ", "IF"}

OperandRule(level) ==
    CASE level = "equivalence" -> "implication"
      [] level = "implication" -> "conjunction_disjunction"
      [] level = "conjunction_disjunction" -> "clause"

EntriesReaching(level) ==
    CASE level = "equivalence" -> {"equivalence"}
      [] level = "implication" -> {"equivalence", "implication"}
      [] level = "conjunction_disjunction" ->
             {"equivalence", "implication", "conjunction_disjunction"}

\* no token opens a group: there is no '[', and every '(' follows an
\* IDENTIFIER, where it opens the argument list of a predication
Unbracketed(ts) ==
    \A i \in 1..Len(ts) :
        /\ ts[i].type # "LBRACKET"
        /\ ts[i].type = "LPAREN" => (i > 1 /\ ts[i - 1].type = "IDENTIFIER")

\* the runs of tokens between the tokens whose kind is in S
RECURSIVE SplitOn(_, _)
SplitOn(ts, S) ==
    IF \A i \in 1..Len(ts) : ts[i].type \notin S THEN <<ts>>
    ELSE LET k == CHOOSE i \in 1..Len(ts) :
                      ts[i].type \in S /\ \A j \in 1..(i - 1) : ts[j].type \notin S
         IN  <<SubSeq(ts, 1, k - 1)>> \o SplitOn(SubSeq(ts, k + 1, Len(ts)), S)

\* the kinds in S in the order they occur
OpsOn(ts, S) == Kinds(SelectSeq(ts, LAMBDA t : t.type \in S))

\* an operand parsed on its own: its tokens closed by an EOI, under the
\* mapping of the parser, by the rule that parses operands of the level
OperandParse(ts, level) ==
    parse(Parser(ts \o <<Token(LiteralAt("EOI", 0), "EOI")>>, m_MapToOperator),
          OperandRule(level))

\* Binary(op_n, Binary(... Binary(op_1, o_1, o_2) ...), o_n+1)
RECURSIVE LeftNested(_, _)
LeftNested(operands, ops) ==
    IF Len(ops) = 0 THEN operands[1]
    ELSE BinaryNode(m_MapToOperator[ops[Len(ops)]],
                    LeftNested(SubSeq(operands, 1, Len(operands) - 1),
                               SubSeq(ops, 1, Len(ops) - 1)),
                    operands[Len(operands)])

\* the token sequence is o1 op o2 op ... on EOI, without brackets, with
\* operators of this level (and none looser) between operands that each
\* parse at the next tighter level, and the entry rule reaches the level
IsChain(level) ==
    /\ Parsed /\ EndsInSingleEOI(m_TokenList)
    /\ m_EntryPoint \in EntriesReaching(level)
    /\ LET body == Body(m_TokenList) IN
       /\ Unbracketed(body)
       /\ \A i \in 1..Len(body) : body[i].type \notin LooserOps(level)
       /\ \E i \in 1..Len(body) : body[i].type \in LevelOps(level)
       /\ \A k \in LevelOps(level) : m_MapToOperator[k] # NoOp
       /\ LET segs == SplitOn(body, LevelOps(level)) IN
          \A i \in 1..Len(segs) : segs[i] # <<>> /\ OperandParse(segs[i], level).ok

ChainOps(level) == OpsOn(Body(m_TokenList), LevelOps(level))

ChainTree(level) ==
    LET segs == SplitOn(Body(m_TokenList), LevelOps(level)) IN
    LeftNested([i \in 1..Len(segs) |-> OperandParse(segs[i], level).val], ChainOps(level))

\* every operator of the chain is the same token kind
Uniform(ops) == \A i, j \in 1..Len(ops) : ops[i] = ops[j]
\* neighbouring operators of the chain differ
Alternates(ops) == Len(ops) >= 2 /\ \A i \in 1..(Len(ops) - 1) : ops[i] # ops[i + 1]

\* C6: at each binary level a bracket-free chain o1 op o2 op ... op on of
\* n >= 2 operands parses to the left-nested tree
\* Binary(op, Binary(op, ... Binary(op, o1, o2) ...), on) over all n operands.
C6_ChainsNestLeft ==
    \A level \in BinaryLevels :
        (IsChain(level) /\ Uniform(ChainOps(level)))
            => result.ok /\ result.val = ChainTree(level)

\* P(x) -> Q(x) -> R(x) has come out as Binary(COND, Binary(COND, P, Q), R)
C6_Witness ==
    /\ IsChain("implication") /\ m_EntryPoint = "equivalence"
    /\ Kinds(m_TokenList) =
           Chain([i \in 1..3 |-> <<"IDENTIFIER", "LPAREN", "VARIABLE", "RPAREN">>],
                 <<"IF", "IF">>) \o <<"EOI">>
    /\ result.ok
    /\ result.val[1] = "Binary" /\ result.val[2] = "CONDITIONAL"
    /\ result.val[3][1] = "Binary" /\ result.val[3][2] = "CONDITIONAL"
    /\ result.val[3][3][1] = "Predication" /\ result.val[3][4][1] = "Predication"
    /\ result.val[4][1] = "Predication"

RECURSIVE BinaryOpsIn(_)
BinaryOpsIn(ast) ==
    CASE ast[1] = "Binary" -> {ast[2]} \cup BinaryOpsIn(ast[3]) \cup BinaryOpsIn(ast[4])
      [] ast[1] = "Unary" -> BinaryOpsIn(ast[3])
      [] ast[1] = "Quantification" -> BinaryOpsIn(ast[4])
      [] OTHER -> {}

MappedOps(kinds) == {m_MapToOperator[k] : k \in kinds}

\* looser operators never sit below tighter ones
RECURSIVE PrecedenceRespected(_)
PrecedenceRespected(ast) ==
    CASE ast[1] = "Binary" ->
            /\ PrecedenceRespected(ast[3]) /\ PrecedenceRespected(ast[4])
            /\ LET below == BinaryOpsIn(ast[3]) \cup BinaryOpsIn(ast[4]) IN
               /\ ast[2] \in MappedOps({"IF"}) => below \cap MappedOps({"EQ"}) = {}
               /\ ast[2] \in MappedOps({"AND", "OR"})
                      => below \cap MappedOps({"IF", "EQ"}) = {}
      [] ast[1] = "Unary" -> BinaryOpsIn(ast[3]) = {} /\ PrecedenceRespected(ast[3])
      [] ast[1] = "Quantification" -> BinaryOpsIn(ast[4]) = {} /\ PrecedenceRespected(ast[4])
      [] OTHER -> TRUE

\* C8: in an AST returned for an input without brackets the operands of a
\* CONDITIONAL node hold no BICONDITIONAL node, the operands of a CONJUNCTION
\* or DISJUNCTION node hold no CONDITIONAL or BICONDITIONAL node, and the
\* operand of a Unary or Quantification node holds no Binary node at all.
C8_PrecedenceInTree ==
    (Parsed /\ result.ok /\ StockMapping /\ m_EntryPoint = "equivalence"
        /\ Unbracketed(m_TokenList))
        => PrecedenceRespected(result.val)

\* box x /= a and P(x) has come out as Binary(AND, Unary(NEC, x /= a), P(x))
C8_Witness ==
    /\ Parsed /\ result.ok /\ StockMapping /\ m_EntryPoint = "equivalence"
    /\ Unbracketed(m_TokenList)
    /\ Kinds(m_TokenList) = <<"NEC", "VARIABLE", "NEQ", "IDENTIFIER", "AND",
                              "IDENTIFIER", "LPAREN", "VARIABLE", "RPAREN", "EOI">>
    /\ result.val[1] = "Binary" /\ result.val[2] = m_MapToOperator["AND"]
    /\ result.val[3][1] = "Unary" /\ result.val[3][2] = m_MapToOperator["NEC"]
    /\ result.val[4][1] = "Predication"

\* what the entry rule returns when parse runs it, and the parser it leaves
EntryOutcome == CallRule(m_EntryPoint, Call(parse_reset(Self, m_EntryPoint), "sentence"))

\* the entry rule has succeeded and left the cursor on a token that is no EOI
TrailingToken ==
    /\ Parsed /\ m_TokenList # <<>>
    /\ EntryOutcome.ok
    /\ EntryOutcome.p.m_Index < Len(m_TokenList)
    /\ m_TokenList[EntryOutcome.p.m_Index + 1].type # "EOI"

\* C9: when the entry rule succeeds and the token at the cursor is not EOI,
\* parse returns an error and no AST, and the error names the literal of the
\* token at the cursor, the first token the entry rule has not consumed.
C9_TrailingTokenIsAnError ==
    TrailingToken
        => /\ ~result.ok /\ result.val = NoVal
           /\ result.err = Err("Unexpected symbol ({})",
                               <<m_TokenList[EntryOutcome.p.m_Index + 1].literal>>, <<>>)

\* an identity followed by an identifier: the error names that identifier
C9_Witness ==
    /\ TrailingToken /\ m_EntryPoint = "equivalence"
    /\ Kinds(m_TokenList) = <<"IDENTIFIER", "ID", "VARIABLE", "IDENTIFIER", "EOI">>
    /\ m_Index = 3
    /\ result.err.lits = <<m_TokenList[4].literal>>

EmptyInputError == Err("Empty input string, nothing to do", <<>>, <<>>)

\* C10: parse on a parser constructed with no tokens at all returns the
\* empty-input error and has entered no rule, whatever the entry rule and
\* the mapping.
C10_EmptyInputError ==
    (Parsed /\ m_TokenList = <<>>)
        => /\ ~result.ok /\ result.err = EmptyInputError
           /\ \A i \in 1..Len(trace) : trace[i].ev # "call"

\* the empty sequence, parsed from inequality under a mapping with no entry
C10_Witness ==
    /\ Parsed /\ m_TokenList = <<>>
    /\ m_EntryPoint = "inequality" /\ m_MapToOperator = PartialMapping(TokenType)
    /\ result.err = EmptyInputError

\* the convenience function has returned
TextParsed == lexpc = "returned" /\ result # NoResult

\* C11: parse("") through the convenience function returns the empty-input
\* error, not a syntax error that a grammar rule produced.
C11_EmptyTextIsEmptyInput ==
    (TextParsed /\ formula = <<>>) => (~result.ok /\ result.err = EmptyInputError)

\* the call that returned found the cursor where an earlier call had left it
Reused == Parsed /\ trace[1].ev = "reset" /\ trace[1].arg = 1

\* C12: whatever calls were made on the parser before, with whatever entry
\* rules and outcomes, a call of parse returns what the same call returns on
\* a newly constructed Parser with the same tokens and mapping, and it starts
\* with the cursor at 0 and the lookahead at the kind of the first token.
C12_ReusedParserIsFresh ==
    Parsed =>
        /\ result = Outcome(parse(Parser(m_TokenList, m_MapToOperator), m_EntryPoint))
        /\ trace[1].ev = "reset" /\ trace[1].idx = 0
        /\ trace[1].la = (IF m_TokenList = <<>> THEN "EOI" ELSE m_TokenList[1].type)

\* a call on a parser whose cursor an earlier call had moved has returned an
\* expression, and one has returned an error with the cursor left past the start
C12_Witness == Reused /\ result.ok /\ Len(m_TokenList) > 2
C12_WitnessAfterFailure == Reused /\ ~result.ok /\ m_Index > 0

\* the token sequence is one pair of brackets around tokens that hold no
\* bracket of clause, followed by EOI
Bracketed(ts) ==
    /\ Len(ts) >= 3 /\ EndsInSingleEOI(ts)
    /\ <<ts[1].type, ts[Len(ts) - 1].type>> \in {<<"LPAREN", "RPAREN">>, <<"LBRACKET", "RBRACKET">>}
    /\ Unbracketed(SubSeq(ts, 2, Len(ts) - 2))
    /\ \A i \in 2..(Len(ts) - 2) :
          /\ ts[i].type # "RBRACKET"
          /\ ts[i].type = "RPAREN" =>
                \E j \in 2..(i - 1) :
                    /\ ts[j].type = "LPAREN"
                    /\ \A k \in (j + 1)..(i - 1) : ts[k].type \notin {"LPAREN", "RPAREN"}

\* the tokens between the brackets, closed by the EOI
Inside(ts) == SubSeq(ts, 2, Len(ts) - 2) \o <<ts[Len(ts)]>>

\* the binary operators the entry rule does not parse: those of looser levels
NotParsedBy(entryPoint) ==
    IF entryPoint \in BinaryLevels THEN LooserOps(entryPoint) ELSE BinaryKinds

SameExpression(a, b) == a.ok = b.ok /\ a.val = b.val

\* the clause() calls that took a bracket branch: the call is followed by the
\* advance() over the opening bracket
BracketCalls ==
    {i \in 1..(Len(trace) - 1) :
        trace[i].ev = "call" /\ trace[i].rule = "clause" /\ trace[i + 1].ev = "advance"}

Quantified ==
    /\ Parsed /\ EndsInSingleEOI(m_TokenList) /\ Len(m_TokenList) >= 3
    /\ isQuantifier(m_TokenList[1].type) /\ m_TokenList[2].type = "VARIABLE"
    /\ m_EntryPoint \in ReachesClause \cup {"quantificational"}

\* the clause() call on what follows the quantifier and its variable
ScopeOfQuantifier ==
    clause(ParserObj(m_TokenList, m_MapToOperator, m_EntryPoint, 2, m_TokenList[3].type, <<>>))

BoundVariable == Term(m_TokenList[2].literal, "VARIABLE")

\* what the specification says a quantification over the scope comes to
QuantificationOver(scope) ==
    CASE m_TokenList[1].type = "FORALL" ->
             [ok |-> TRUE, val |-> QuantificationNode("UNIVERSAL", BoundVariable, scope.val)]
      [] m_TokenList[1].type = "EXISTS" ->
             [ok |-> TRUE, val |-> QuantificationNode("EXISTENTIAL", BoundVariable, scope.val)]
      [] m_TokenList[1].type = "NOT_EXISTS" /\ m_MapToOperator["NOT"] # NoOp ->
             [ok |-> TRUE,
              val |-> UnaryNode(m_MapToOperator["NOT"],
                                QuantificationNode("EXISTENTIAL", BoundVariable, scope.val))]
      [] OTHER -> [ok |-> FALSE, val |-> NoVal]

\* the scope has been parsed and reaches to the closing EOI
WholeScope(scope) == scope.ok /\ scope.p.m_Index = Len(m_TokenList) - 1

\* C14: the negated existential quantifier with variable v and scope phi gives
\* Unary(m, Quantification(EXISTENTIAL, v, phi)) with m the operator the mapping
\* returns for NOT, and an error when the mapping returns none for NOT; the
\* universal and the existential quantifier give Quantification(UNIVERSAL, v, phi)
\* and Quantification(EXISTENTIAL, v, phi) with no negation node.
C14_NegatedQuantifier ==
    Quantified =>
        /\ WholeScope(ScopeOfQuantifier) =>
              SameExpression(result, QuantificationOver(ScopeOfQuantifier))
        /\ (m_TokenList[1].type = "NOT_EXISTS" /\ m_MapToOperator["NOT"] = NoOp) => ~result.ok
        /\ (result.ok /\ m_TokenList[1].type # "NOT_EXISTS" /\ WholeScope(ScopeOfQuantifier)) =>
              result.val[1] = "Quantification"

\* a negated existential quantification has been parsed under the deontic mapping
C14_Witness ==
    /\ Quantified /\ m_TokenList[1].type = "NOT_EXISTS" /\ result.ok
    /\ m_MapToOperator = mapToDeonticOperator
    /\ result.val[1] = "Unary" /\ result.val[2] = "NEGATION"
    /\ result.val[3][1] = "Quantification" /\ result.val[3][2] = "EXISTENTIAL"

\* the expression e and every expression under it
RECURSIVE Subtrees(_)
Subtrees(e) ==
    {e} \cup CASE e[1] = "Unary" -> Subtrees(e[3])
               [] e[1] = "Binary" -> Subtrees(e[3]) \cup Subtrees(e[4])
               [] e[1] = "Quantification" -> Subtrees(e[4])
               [] OTHER -> {}

\* the term the specification assigns to a term token
TermOf(token) ==
    Term(token.literal, IF token.type = "VARIABLE" THEN "VARIABLE" ELSE "CONSTANT")

\* the positions of the ID and NEQ tokens that stand between two terms
Relations(kind) ==
    {i \in 2..(Len(m_TokenList) - 1) :
        /\ m_TokenList[i].type = kind
        /\ isTerm(m_TokenList[i - 1].type) /\ isTerm(m_TokenList[i + 1].type)}

IdentityAt(i) == IdentityNode(TermOf(m_TokenList[i - 1]), TermOf(m_TokenList[i + 1]))

\* a unary operator token stands before position i, with nothing but opening
\* brackets in between
UnaryBefore(i) ==
    \E j \in 1..(i - 1) :
        /\ isUnaryOperator(m_TokenList[j].type)
        /\ \A k \in (j + 1)..(i - 1) : m_TokenList[k].type \in {"LPAREN", "LBRACKET"}

\* the expressions that have e as their immediate operand
Over(e) == {u \in Subtrees(result.val) : u[1] = "Unary" /\ u[3] = e}

\* the entry rules that parse the relation of a sequence term, relation, term
RelationEntries ==
    ReachesClause \cup {"atomic"}
        \cup (IF m_TokenList[2].type = "ID" THEN {"identity"} ELSE {"inequality"})

\* C15: t1 /= t2 gives Unary(m, Identity(t1, t2)) with m the operator the
\* mapping returns for NOT, which is NEGATION under every stock mapping, and an
\* error when the mapping returns none for NOT; t1 = t2 gives Identity(t1, t2),
\* with no negation of its own.
C15_InequalityIsNegatedIdentity ==
    Parsed =>
        /\ result.ok =>
              /\ \A i \in Relations("NEQ") :
                    /\ UnaryNode(m_MapToOperator["NOT"], IdentityAt(i)) \in Subtrees(result.val)
                    /\ StockMapping => UnaryNode("NEGATION", IdentityAt(i)) \in Subtrees(result.val)
              /\ \A i \in Relations("ID") :
                    /\ IdentityAt(i) \in Subtrees(result.val)
                    /\ ~UnaryBefore(i - 1) => Over(IdentityAt(i)) = {}
        /\ (Relations("NEQ") # {} /\ m_MapToOperator["NOT"] = NoOp) => ~result.ok
        /\ (Kinds(m_TokenList) \in TermPairKindSeqs /\ m_EntryPoint \in RelationEntries) =>
              SameExpression(result,
                  IF m_TokenList[2].type = "ID" THEN [ok |-> TRUE, val |-> IdentityAt(2)]
                  ELSE IF m_MapToOperator["NOT"] # NoOp
                  THEN [ok |-> TRUE, val |-> UnaryNode(m_MapToOperator["NOT"], IdentityAt(2))]
                  ELSE [ok |-> FALSE, val |-> NoVal])

\* an inequality of a constant and a variable has been parsed into the negation
\* of their identity
C15_Witness ==
    /\ Parsed /\ result.ok /\ Kinds(m_TokenList) = <<"IDENTIFIER", "NEQ", "VARIABLE", "EOI">>
    /\ m_MapToOperator = mapToEpistemicOperator
    /\ result.val = UnaryNode("NEGATION", IdentityAt(2))

\* the token kinds of the connectives and of the modal operators
ConnectiveKinds == {"NOT", "AND", "OR", "IF", "EQ"}
ModalKinds == {"NEC", "POS"}

\* the operator the specification gives for a connective
ConnectiveOperator(type) ==
    CASE type = "NOT" -> "NEGATION"
      [] type = "AND" -> "CONJUNCTION"
      [] type = "OR"  -> "DISJUNCTION"
      [] type = "IF"  -> "CONDITIONAL"
      [] type = "EQ"  -> "BICONDITIONAL"

\* the operators of the unary and binary nodes of the expression e
OperatorsIn(e) == {u[2] : u \in {v \in Subtrees(e) : v[1] \in {"Unary", "Binary"}}}

\* C16: the three stock mappings agree on NOT, AND, OR, IF and EQ, which they
\* map to NEGATION, CONJUNCTION, DISJUNCTION, CONDITIONAL and BICONDITIONAL;
\* they differ only on NEC and POS, which the alethic mapping maps to NECESSITY
\* and POSSIBILITY, the deontic one to DEONTIC_NECESSITY and
\* DEONTIC_POSSIBILITY, the epistemic one to EPISTEMIC_NECESSITY and
\* EPISTEMIC_POSSIBILITY; and they return no operator for every other kind.
C16_StockMappingsAgree ==
    /\ \A mapFunction \in StockMappings :
          /\ \A type \in ConnectiveKinds : mapFunction[type] = ConnectiveOperator(type)
          /\ \A type \in TokenType \ (ConnectiveKinds \cup ModalKinds) : mapFunction[type] = NoOp
    /\ <<mapToAlethicOperator["NEC"], mapToAlethicOperator["POS"]>> = <<"NECESSITY", "POSSIBILITY">>
    /\ <<mapToDeonticOperator["NEC"], mapToDeonticOperator["POS"]>>
           = <<"DEONTIC_NECESSITY", "DEONTIC_POSSIBILITY">>
    /\ <<mapToEpistemicOperator["NEC"], mapToEpistemicOperator["POS"]>>
           = <<"EPISTEMIC_NECESSITY", "EPISTEMIC_POSSIBILITY">>
    /\ (Parsed /\ result.ok /\ m_MapToOperator = mapToDeonticOperator) =>
          OperatorsIn(result.val) \subseteq
              {ConnectiveOperator(type) : type \in ConnectiveKinds}
                  \cup {"DEONTIC_NECESSITY", "DEONTIC_POSSIBILITY"}

\* a formula with the necessity operator has been parsed under the deontic mapping
C16_Witness ==
    /\ Parsed /\ result.ok /\ m_MapToOperator = mapToDeonticOperator
    /\ m_TokenList[1].type = "NEC"
    /\ result.val[1] = "Unary" /\ result.val[2] = "DEONTIC_NECESSITY"

\* the tokens the call has consumed: those advance() has moved the cursor over
Consumed ==
    {m_TokenList[trace[i].arg + 1] : i \in {j \in 1..Len(trace) : trace[j].ev = "advance"}}

\* the token kind whose operator a consumed token of this kind needs: its own
\* for a connective or a modal operator, NOT for an inequality sign and for
\* the negated existential quantifier
NeedsOperatorOf(type) ==
    IF type \in ConnectiveKinds \cup ModalKinds THEN {type}
    ELSE IF type \in {"NEQ", "NOT_EXISTS"} THEN {"NOT"}
    ELSE {}

\* C17: when parse returns an expression, the mapping has returned an operator
\* for the kind of every operator token consumed (NOT, NEC, POS, AND, OR, IF,
\* EQ) and for NOT if an inequality sign or a negated existential quantifier
\* was consumed: a missing entry of the mapping always gives an error.
C17_MissingOperatorIsAnError ==
    (Parsed /\ result.ok) =>
        /\ \A token \in Consumed : \A type \in NeedsOperatorOf(token.type) :
              m_MapToOperator[type] # NoOp
        /\ NoOp \notin OperatorsIn(result.val)

\* an equivalence has been rejected under a mapping without an entry for EQ,
\* after the operator and the formula on its right were consumed
C17_Witness ==
    /\ Parsed /\ ~result.ok /\ m_MapToOperator = PartialMapping({"EQ"})
    /\ \E token \in Consumed : token.type = "EQ"
    /\ result.err.msg = "Non-existent map for token type EQ"

\* the terms of the expression e, from left to right
RECURSIVE TermsIn(_)
TermsIn(e) ==
    CASE e[1] = "Predication" -> e[3]
      [] e[1] = "Identity" -> <<e[2], e[3]>>
      [] e[1] = "Unary" -> TermsIn(e[3])
      [] e[1] = "Binary" -> TermsIn(e[3]) \o TermsIn(e[4])
      [] e[1] = "Quantification" -> <<e[3]>> \o TermsIn(e[4])

\* the positions of the consumed tokens
ConsumedAt == {trace[i].arg + 1 : i \in {j \in 1..Len(trace) : trace[j].ev = "advance"}}

\* the positions of the consumed tokens that stand for a term: the VARIABLE
\* and IDENTIFIER tokens but for the predicate symbols, which are the
\* IDENTIFIER tokens that a '(' follows
TermPositions ==
    {i \in ConsumedAt :
        /\ isTerm(m_TokenList[i].type)
        /\ ~(/\ m_TokenList[i].type = "IDENTIFIER"
              /\ i < Len(m_TokenList) /\ m_TokenList[i + 1].type = "LPAREN")}

\* the elements of the set S of numbers in increasing order
RECURSIVE Ascending(_)
Ascending(S) ==
    IF S = {} THEN <<>>
    ELSE LET least == CHOOSE i \in S : \A j \in S : i <= j
         IN  <<least>> \o Ascending(S \ {least})

TermTokens == [k \in 1..Cardinality(TermPositions) |-> m_TokenList[Ascending(TermPositions)[k]]]

\* C18: every Term built (the arguments of a predication, the two sides of an
\* identity or inequality, the variable a quantifier binds) is a VARIABLE
\* exactly when its token's kind is VARIABLE and a CONSTANT exactly when it is
\* IDENTIFIER, and its name is the literal of the token.
C18_TermsFollowTokens ==
    (Parsed /\ result.ok) =>
        /\ Len(TermsIn(result.val)) = Len(TermTokens)
        /\ \A k \in 1..Len(TermTokens) :
              /\ TermsIn(result.val)[k].literal = TermTokens[k].literal
              /\ TermsIn(result.val)[k].type = "VARIABLE" <=> TermTokens[k].type = "VARIABLE"
              /\ TermsIn(result.val)[k].type = "CONSTANT" <=> TermTokens[k].type = "IDENTIFIER"

\* a quantification over a predication of the bound variable has been parsed
C18_Witness ==
    /\ Parsed /\ result.ok
    /\ Kinds(m_TokenList) = <<"FORALL", "VARIABLE", "IDENTIFIER", "LPAREN", "VARIABLE", "COMMA",
                              "IDENTIFIER", "RPAREN", "EOI">>
    /\ TermsIn(result.val) = <<Term(m_TokenList[2].literal, "VARIABLE"),
                               Term(m_TokenList[5].literal, "VARIABLE"),
                               Term(m_TokenList[7].literal, "CONSTANT")>>

\* the positions of the ILLEGAL tokens that lex has returned
IllegalTokens == {i \in 1..Len(list) : list[i].type = "ILLEGAL"}

\* C19: lex does not fail on a byte it does not recognise or on a broken
\* multi-byte sequence: it goes on to the end of the text and returns a token
\* list closed by EOI; and whenever that list holds an ILLEGAL token, parse of
\* the text returns an error, for every entry rule and mapping.
C19_IllegalTokenIsRejected ==
    /\ lexpc = "scan" => ENABLED LexNext
    /\ lexpc = "returned" =>
          /\ list # <<>> /\ list[Len(list)].type = "EOI"
          /\ \A i \in 1..Len(list) : list[i].type \in TokenType
    /\ (TextParsed /\ IllegalTokens # {}) => ~result.ok

\* a text with an unrecognised byte after a well-formed predication has been
\* lexed with an ILLEGAL token and rejected under the default entry rule
C19_Witness ==
    /\ TextParsed /\ IllegalTokens # {} /\ ~result.ok
    /\ formula = <<80, 40, 120, 41, 35>>
    /\ m_EntryPoint = "equivalence" /\ m_MapToOperator = mapToAlethicOperator

\* a text that breaks off inside a multi-byte symbol has been lexed with an
\* ILLEGAL token and rejected
C19_BrokenSequence ==
    /\ TextParsed /\ IllegalTokens # {} /\ ~result.ok
    /\ \A i \in 1..Len(formula) : formula[i] # 35

\* the indices of the direct element accesses m_TokenList.at(i) of the call
Accessed == {trace[i].arg : i \in {j \in 1..Len(trace) : trace[j].ev = "at"}}

\* every direct element access of the call was inside the token sequence
AccessesInRange == \A index \in Accessed : index >= 0 /\ index < Len(m_TokenList)

\* the call has come back with an expression or an error value
ReturnedValue == result.ok \/ result.err.msg # StackExhausted

\* C20: for every token sequence, those that do not end in EOI or are shorter
\* than the lookahead of a rule included, parse returns an expression or an
\* error value, and it reads the token sequence at no index outside
\* [0, length): every direct element access follows a peek that has found a
\* token there.
C20_ReturnsAndStaysInRange == Parsed => (ReturnedValue /\ AccessesInRange)

\* the part of C20 about the element accesses alone
C20_AccessesInRange == Parsed => AccessesInRange

\* the steps of the call at which clause() was entered, and those at which
\* advance() moved the cursor
ClauseCalls == {i \in 1..Len(trace) : trace[i].ev = "call" /\ trace[i].rule = "clause"}
Advances == {i \in 1..Len(trace) : trace[i].ev = "advance"}

\* every descent into clause() finds the cursor further on than the descent
\* before it did
ClauseCallsAdvance ==
    \A i \in ClauseCalls : \A j \in ClauseCalls : i < j => trace[i].idx < trace[j].idx

\* advance() has moved the cursor only from a lookahead other than EOI, and
\* by one token
AdvanceStopsAtEOI ==
    \A i \in Advances :
        i > 1 /\ trace[i - 1].la # "EOI" /\ trace[i].idx = trace[i - 1].idx + 1

\* C21: for every finite token sequence, every entry rule and every mapping,
\* parse terminates: every descent into clause, through a unary operator, a
\* quantifier or an opening bracket, comes after the cursor has moved on by at
\* least one token, and advance does not move the cursor once the lookahead
\* is EOI.
C21_ParseTerminates ==
    Parsed => (result.err.msg # StackExhausted /\ ClauseCallsAdvance /\ AdvanceStopsAtEOI)

\* the part of C21 about advance() alone
C21_AdvanceStopsAtEOI == Parsed => AdvanceStopsAtEOI

\* the call of parse on the instance o as it runs with no other instance
\* about: on a parser constructed from what o was constructed from
Alone(o) == parse(Parser(o.given[1], o.given[2]), o.m_EntryPoint)

\* the instance o is where its call, run alone, is after as many steps
AsAlone(o, alone) ==
    /\ <<o.m_TokenList, o.m_MapToOperator>> = o.given
    /\ o.done <= Len(alone.p.trace)
    /\ o.done > 0 =>
          /\ o.m_Index = alone.p.trace[o.done].idx
          /\ o.m_LookAhead = alone.p.trace[o.done].la
    /\ o.done = 0 =>
          /\ o.m_Index = 0
          /\ o.m_LookAhead = Parser(o.given[1], o.given[2]).m_LookAhead
    /\ IF o.done = Len(alone.p.trace) THEN o.result = Outcome(alone)
       ELSE o.result = NoResult

\* C22: two distinct Parser instances whose parse steps are interleaved in
\* any order each return what they return when run alone: at every step each
\* instance has the cursor, lookahead, token sequence, mapping and entry rule
\* that its own call has given it, whatever steps the other has taken.
C22_InstancesAreIndependent ==
    peers # <<>> => \A i \in Instances : AsAlone(peers[i], Alone(peers[i]))

\* both calls are under way at once, on different token sequences under
\* different entry rules, each with its cursor moved off the first token, and
\* the second is in the predication that will restore its cursor
C22_Witness ==
    /\ peers # <<>>
    /\ peers[1].done > 0 /\ peers[1].result = NoResult /\ peers[1].m_Index > 2
    /\ peers[2].done > 0 /\ peers[2].result = NoResult /\ peers[2].m_Index = 2
    /\ peers[1].m_EntryPoint # peers[2].m_EntryPoint
    /\ peers[1].m_TokenList # peers[2].m_TokenList
    /\ \E k \in 1..Len(Alone(peers[2]).p.trace) : Alone(peers[2]).p.trace[k].ev = "restore"

\* C23: a con_dis is a clause followed by any number of 'AND clause' or by any
\* number of 'OR clause': one unbracketed chain has a single operator, so a
\* sentence whose unbracketed chain mixes AND and OR, such as A AND B OR C, is
\* no sentence of the grammar and parse rejects it.
C23_MixedChainIsRejected ==
    (IsChain("conjunction_disjunction") /\ ~Uniform(ChainOps("conjunction_disjunction")))
        => ~result.ok

\* the steps of the call at which predication() returned an error
PredicationFailures ==
    {i \in 1..Len(trace) :
        trace[i].ev = "ret" /\ trace[i].rule = "predication" /\ trace[i].arg = 0}

\* the step at which the predication() that is left at step i was entered
EntryOf(i) ==
    CHOOSE j \in 1..(i - 1) :
        /\ trace[j].ev = "call" /\ trace[j].rule = "predication"
        /\ \A k \in (j + 1)..(i - 1) : ~(trace[k].ev = "call" /\ trace[k].rule = "predication")

\* the steps at which predication set the cursor back
Restores == {i \in 1..Len(trace) : trace[i].ev = "restore"}

\* C24: whenever predication returns an error, be it a failed lookahead test,
\* a ',' with no term after it or a missing ')' after the arguments, the
\* cursor index and the lookahead on return are those of the moment
\* predication was called: the caller sees no token consumed.
C24_FailedPredicationLeavesCursor ==
    Parsed =>
        \A i \in PredicationFailures :
            /\ trace[i].idx = trace[EntryOf(i)].idx
            /\ trace[i].la = trace[EntryOf(i)].la

\* predication has consumed the predicate symbol, '(' and two arguments, found
\* no ')' and returned its error with the cursor back on the predicate symbol,
\* which is not the first token
C24_Witness ==
    /\ Parsed /\ ~result.ok
    /\ \E i \in PredicationFailures :
          /\ i - 1 \in Restores /\ trace[i - 1].arg = trace[i].idx + 5
          /\ trace[i].idx = 1 /\ trace[i].la = "IDENTIFIER"

\* C25: during one call of parse the cursor index stays within
\* [0, number of tokens] and does not decrease from one step to the next,
\* but for the one step in which predication restores the index it saved on
\* entry; the restored index is not lower than the one predication started from.
C25_CursorIsMonotonic ==
    Parsed =>
        /\ \A i \in 1..Len(trace) : trace[i].idx >= 0 /\ trace[i].idx <= Len(m_TokenList)
        /\ \A i \in 2..Len(trace) : trace[i].idx >= trace[i - 1].idx \/ i \in Restores
        /\ \A i \in Restores : trace[i].idx >= trace[EntryOf(i)].idx
        /\ Cardinality(Restores) <= 1
        /\ m_Index = trace[Len(trace)].idx

\* a call has moved the cursor forward over a negation and a predication with
\* two arguments and then back to the predicate symbol
C25_Witness ==
    /\ Parsed
    /\ \E i \in Restores :
          /\ trace[i].idx = 1 /\ trace[i - 1].idx = 6
          /\ \A j \in 2..(i - 1) : trace[j].idx >= trace[j - 1].idx

\* the bytes that follow another byte in a multi-byte symbol, and the bytes
\* that come before such a byte in some symbol
ContinuationBytes ==
    UNION {{s.bytes[k] : k \in 2..Len(s.bytes)} : s \in MultiByteSymbols}
Predecessors(c) ==
    UNION {{s.bytes[k - 1] : k \in {j \in 2..Len(s.bytes) : s.bytes[j] = c}} :
              s \in MultiByteSymbols}

\* the scan loop is about to read a continuation byte that the pending
\* operator buffer does not lead up to
UnexpectedContinuation ==
    /\ lexpc = "scan" /\ pos < Len(formula)
    /\ formula[pos + 1] \in ContinuationBytes
    /\ \/ operator_byte_array = <<>>
       \/ back(operator_byte_array) \notin Predecessors(formula[pos + 1])

\* the step has appended an ILLEGAL token whose literal holds the byte read
IllegalForByteRead ==
    \E i \in (Len(list) + 1)..Len(list') :
        /\ list'[i].type = "ILLEGAL"
        /\ \E k \in 1..Len(list'[i].literal) : list'[i].literal[k] = formula[pos + 1]

\* C26: whenever lex reads a continuation byte of a multi-byte symbol and the
\* pending operator buffer does not end with the byte that must come before
\* it, the empty buffer included, the output gets an ILLEGAL token that
\* accounts for that byte: the byte is not dropped without a token.
C26_ContinuationByteIsNotDropped ==
    [][UnexpectedContinuation => IllegalForByteRead]_vars

\* atomic() is the entry rule and finds a term at the first token of a token
\* sequence closed by EOI
AtomicAtTerm ==
    /\ Parsed /\ m_EntryPoint = "atomic"
    /\ EndsInSingleEOI(m_TokenList) /\ Len(m_TokenList) >= 2
    /\ isTerm(m_TokenList[1].type)

\* the rule atomic() hands over to, by the kind of the next token
DispatchOf(type) ==
    CASE type = "LPAREN" -> "predication"
      [] type = "ID" -> "identity"
      [] type = "NEQ" -> "inequality"
      [] OTHER -> "none"

\* the rules entered during the call, atomic() apart
RulesEntered ==
    {trace[i].rule : i \in {j \in 1..Len(trace) : trace[j].ev = "call"}} \ {"sentence", "atomic"}

\* the first position from the third token on where an argument list breaks
\* off: a term is due at the odd positions, ',' or ')' at the even ones
ArgumentOffender ==
    CHOOSE k \in 3..Len(m_TokenList) :
        /\ IF k % 2 = 1 THEN ~isTerm(m_TokenList[k].type)
           ELSE m_TokenList[k].type # "COMMA"
        /\ \A j \in 3..(k - 1) :
              IF j % 2 = 1 THEN isTerm(m_TokenList[j].type) ELSE m_TokenList[j].type = "COMMA"

\* the positions of the token that keeps the sequence from being an atomic
\* formula; for a variable before '(' either of the two
AtomicOffenders ==
    CASE DispatchOf(m_TokenList[2].type) = "none" -> {2}
      [] DispatchOf(m_TokenList[2].type) \in {"identity", "inequality"} -> {3}
      [] OTHER -> IF m_TokenList[1].type = "VARIABLE" THEN {1, 2} ELSE {ArgumentOffender}

\* the tokens from the first on are not an atomic formula: after '=' or the
\* inequality sign no term follows, or atomic() fails for another next token
NoAtomicFormula ==
    /\ \E i \in 1..Len(trace) : trace[i].ev = "ret" /\ trace[i].rule = "atomic" /\ trace[i].arg = 0
    /\ m_TokenList[2].type \in {"ID", "NEQ"} => ~isTerm(m_TokenList[3].type)

\* the error returned names the literal of the token at position k
Names(k) == \E j \in 1..Len(result.err.lits) : result.err.lits[j] = m_TokenList[k].literal

\* atomic() has handed over to the rule that the next token selects, and to no other
DispatchesOnNextToken ==
    RulesEntered = {DispatchOf(m_TokenList[2].type)} \ {"none"}

\* C27: entered at a term token, atomic dispatches on the next token alone,
\* '(' to predication, '=' to identity, the inequality sign to inequality;
\* and whenever no atomic formula results, the error returned names the
\* literal of the offending token, a VARIABLE before '(' included.
C27_AtomicNamesOffender ==
    AtomicAtTerm =>
        /\ DispatchesOnNextToken
        /\ NoAtomicFormula => \E k \in AtomicOffenders : Names(k)

\* the dispatch of C27 alone
C27_Dispatch == AtomicAtTerm => DispatchesOnNextToken

\* C27 but for the two cases in which the code does not name the offender: a
\* VARIABLE before '(', and a term missing after the inequality sign
C27_ButForVariableAndInequality ==
    (/\ AtomicAtTerm /\ NoAtomicFormula
     /\ ~(m_TokenList[1].type = "VARIABLE" /\ m_TokenList[2].type = "LPAREN")
     /\ m_TokenList[2].type # "NEQ")
        => \E k \in AtomicOffenders : Names(k)

\* identity() or inequality() is entered, alone or from atomic(), at a term
\* followed by its relation sign and then by a token that is not a term
TermMissingAfter(sign) ==
    /\ Parsed
    /\ m_EntryPoint \in {"atomic", IF sign = "ID" THEN "identity" ELSE "inequality"}
    /\ Len(m_TokenList) >= 3
    /\ isTerm(m_TokenList[1].type)
    /\ m_TokenList[2].type = sign
    /\ ~isTerm(m_TokenList[3].type)

\* parse fails and the error names the token two positions after the first
NamesThirdToken == ~result.ok /\ result.err.lits = <<m_TokenList[3].literal>>

\* C28: when identity or inequality fails because the token after '=' or
\* after the inequality sign is not a term, the error names the literal of
\* that token, the one two positions after the left-hand term, in both rules alike.
C28_RelationNamesOffender ==
    (TermMissingAfter("ID") \/ TermMissingAfter("NEQ")) => NamesThirdToken

\* the part of C28 that is about identity
C28_IdentityNamesOffender == TermMissingAfter("ID") => NamesThirdToken

\* what inequality does in place of it: the token it names is the inequality
\* sign itself, one position after the left-hand term
C28_InequalityNamesSign ==
    TermMissingAfter("NEQ") => (~result.ok /\ result.err.lits = <<m_TokenList[2].literal>>)

\* the steps at which a rule returned a failure
FailedReturns == {i \in 1..Len(trace) : trace[i].ev = "ret" /\ trace[i].arg = 0}

\* the first of them: the return of the innermost failing rule
FirstFailedReturn == CHOOSE i \in FailedReturns : \A j \in FailedReturns : i <= j

\* the number of steps of the kind ev from step a to step b
StepsBetween(ev, a, b) == Cardinality({k \in a..b : trace[k].ev = ev})

\* the step at which the rule that returns at step i was entered
CallOf(i) ==
    CHOOSE j \in 1..(i - 1) :
        /\ trace[j].ev = "call" /\ trace[j].rule = trace[i].rule
        /\ StepsBetween("call", j + 1, i - 1) = StepsBetween("ret", j + 1, i - 1)

\* the rules that are in progress when the rule that returns at step i is entered
CallersOf(i) ==
    {trace[j].rule : j \in {k \in 1..(i - 1) :
        /\ trace[k].ev = "call"
        /\ StepsBetween("call", k + 1, i - 1) > StepsBetween("ret", k + 1, i - 1)}}

\* the error of the first failure: what the innermost failing rule returns
\* when it is entered where the trace says it was
FirstFailure ==
    LET i == FirstFailedReturn IN
    IF trace[i].rule \in {"parse", "sentence"} THEN result.err
    ELSE CallRule(trace[i].rule,
                  ParserObj(m_TokenList, m_MapToOperator, m_EntryPoint,
                            trace[CallOf(i)].idx, trace[CallOf(i)].la, <<>>)).err

\* err is the error e or is formatted around it
RECURSIVE Contains(_, _)
Contains(err, e) ==
    \/ err = e
    \/ e.msg = ""
    \/ err.inner # <<>> /\ Contains(err.inner[1], e)

\* parse has returned a failure
ParseFailed == Parsed /\ ~result.ok /\ result.err.msg # StackExhausted

\* C29: the error parse returns is, or contains, the message of the first
\* failure raised by the innermost failing rule, whatever the nesting of
\* binary levels, brackets, quantifiers and unary operators; a failure for a
\* missing mapping below a unary operator is still reported as such.
C29_FirstFailureIsReported == ParseFailed => Contains(result.err, FirstFailure)

\* C29 for the failures that are not raised below a unary operator
C29_ButBelowUnary ==
    (ParseFailed /\ "unary" \notin CallersOf(FirstFailedReturn))
        => Contains(result.err, FirstFailure)

\* the messages of a failure for a missing mapping
MissingMappingMessages ==
    {"Non-existent map for token type " \o k : k \in {"NOT", "AND", "OR", "IMP", "EQ"}}
        \cup {"Non-existent map for unary operator"}
        \cup {"Non-existent map for unary operator " \o k : k \in {"NOT", "NEC", "POS"}}

\* the case C29 singles out: the first failure is one for a missing mapping
\* and is raised below a unary operator, and parse reports a missing mapping
C29_MissingMappingBelowUnary ==
    (/\ ParseFailed /\ "unary" \in CallersOf(FirstFailedReturn)
     /\ FirstFailure.msg \in MissingMappingMessages)
        => Contains(result.err, FirstFailure)

\* the steps after the first return of a failure
AfterFirstFailure == (FirstFailedReturn + 1)..Len(trace)

\* from the first failure on every rule in progress returns a failure, and
\* nothing else happens but the reading of tokens for the messages
OnlyFailuresFollow ==
    \A k \in AfterFirstFailure :
        \/ trace[k].ev = "ret" /\ trace[k].arg = 0
        \/ trace[k].ev = "at"

\* C30: once a rule has returned a failure, no rule advances the cursor
\* again and no other production is entered before parse returns a failure:
\* there is no ordered choice, clause takes one alternative by the kind of
\* the current token and its failure is the failure of the parse.
C30_FailureEndsParse ==
    (Parsed /\ FailedReturns # {} /\ result.err.msg # StackExhausted) =>
        /\ OnlyFailuresFollow
        /\ ~result.ok
        /\ trace[Len(trace)].rule = "parse"

\* a failure raised below clause after the cursor has moved, with four or
\* more rules in progress that return it in turn
C30_Witness ==
    /\ Parsed /\ FailedReturns # {} /\ result.err.msg # StackExhausted
    /\ "clause" \in CallersOf(FirstFailedReturn)
    /\ \E k \in 1..FirstFailedReturn : trace[k].ev = "advance"
    /\ Cardinality(AfterFirstFailure) >= 4
    /\ m_Index < Len(m_TokenList) - 2

\* the literals of the tokens lex has returned, the closing EOI left out, in a row
SpelledByTokens == Flatten([i \in 1..(Len(list) - 1) |-> list[i].literal])

\* the text without its spaces
NotSpace(c) == c # 32
WithoutSpaces(text) == SelectSeq(text, NotSpace)

\* C31: for every input, the literals of the tokens lex returns, the final EOI
\* apart, spell in output order exactly the input without its spaces: no byte
\* is dropped, no token comes before a token whose bytes are earlier in the
\* text, and no identifier joins characters that a non-identifier byte separates.
C31_TokensSpellInput ==
    lexpc = "returned" => SpelledByTokens = WithoutSpaces(formula)

\* C31 for the texts made of identifier characters, brackets, commas, '=' and
\* spaces only
C31_PlainTextIsSpelled ==
    (lexpc = "returned" /\ \A k \in 1..Len(formula) : formula[k] \in PunctBytes \cup IdBytes)
        => SpelledByTokens = WithoutSpaces(formula)

\* an unmatched byte after identifier characters: C31 says the identifier
\* comes first in the output
C31_UnmatchedByteKeepsOrder ==
    (lexpc = "returned" /\ Len(formula) = 2 /\ formula[1] \in IdBytes /\ formula[2] \in OtherBytes)
        => Types(list) = <<IF isVariable(<<formula[1]>>) THEN "VARIABLE" ELSE "IDENTIFIER",
                           "ILLEGAL", "EOI">>

\* the canonical bytes of the symbol of a kind
CanonicalBytes(kind) == (CHOOSE s \in SymbolTable : s.kind = kind).bytes

\* bytes occurs in text as a run of adjacent bytes
OccursIn(bytes, text) ==
    \E k \in 1..(Len(text) - Len(bytes) + 1) : SubSeq(text, k, k + Len(bytes) - 1) = bytes

\* the part of the text the scan has read
TextRead == SubSeq(formula, 1, pos)

\* C32: lex emits a token of a multi-byte symbol kind only if the canonical
\* bytes of that symbol occur as adjacent bytes in the input read so far;
\* bytes of a symbol with identifier characters or unmatched bytes between
\* them never give that symbol's token.
C32_SymbolNeedsAdjacentBytes ==
    \A i \in 1..Len(list) :
        list[i].type \in SymbolKinds => OccursIn(CanonicalBytes(list[i].type), TextRead)

\* C32 for the texts without identifier characters and unmatched bytes
C32_WithoutInterleaving ==
    (\A k \in 1..Len(formula) : formula[k] \in OpBytes \cup PunctBytes)
        => \A i \in 1..Len(list) :
              list[i].type \in SymbolKinds => OccursIn(CanonicalBytes(list[i].type), TextRead)

\* bytes is the first byte or the first two bytes of a multi-byte symbol
\* that is longer than bytes
IsProperPrefix(bytes) ==
    /\ Len(bytes) \in {1, 2}
    /\ \E s \in MultiByteSymbols :
          Len(bytes) < Len(s.bytes) /\ SubSeq(s.bytes, 1, Len(bytes)) = bytes

\* a byte that no branch of the scan loop matches
IsUnmatchedByte(c) ==
    c \notin OpBytes \cup PunctBytes /\ ~isValidIdentifierSymbol(c)

\* C33: at every point of the scan the pending operator buffer is empty or a
\* proper prefix, of one or two bytes, of the canonical bytes of a multi-byte
\* symbol; so every token of a multi-byte symbol kind has exactly the
\* canonical bytes of its symbol as literal, and the literal of every ILLEGAL
\* token is one unmatched byte or such a proper prefix.
C33_OperatorBufferIsPrefix ==
    /\ operator_byte_array = <<>> \/ IsProperPrefix(operator_byte_array)
    /\ \A i \in 1..Len(list) :
          /\ list[i].type \in SymbolKinds => list[i].literal = CanonicalBytes(list[i].type)
          /\ list[i].type = "ILLEGAL" =>
                \/ Len(list[i].literal) = 1 /\ IsUnmatchedByte(list[i].literal[1])
                \/ IsProperPrefix(list[i].literal)

\* the scan holds the first byte of a symbol after it has given up a
\* two-byte prefix as an ILLEGAL token
C33_Witness ==
    /\ lexpc = "scan"
    /\ formula = <<226, 136, 226>> /\ pos = 3
    /\ operator_byte_array = <<226>>
    /\ list = <<Token(<<226, 136>>, "ILLEGAL")>>

\* C34: every error parse returns carries a message that is not empty, for
\* every token sequence and every rule used as entry rule: the empty string
\* a rule returns when its first token does not match never reaches the
\* caller of parse.
C34_ErrorHasMessage == ParseFailed => result.err.msg # ""

\* C34 for the calls with the default entry rule
C34_DefaultEntryErrorHasMessage ==
    (ParseFailed /\ m_EntryPoint = "equivalence") => result.err.msg # ""

\* C34 for the calls with the default entry rule on token sequences that
\* are closed by EOI and have no VARIABLE before '('
C34_ButForVariableSymbol ==
    (/\ ParseFailed /\ m_EntryPoint = "equivalence"
     /\ EndsInSingleEOI(m_TokenList)
     /\ \A i \in 1..(Len(m_TokenList) - 1) :
           ~(m_TokenList[i].type = "VARIABLE" /\ m_TokenList[i + 1].type = "LPAREN"))
        => result.err.msg # ""

\* the token sequence with an opening bracket before its first token and a
\* closing bracket after its last token, the closing EOI apart
Wrapped(ts, opener, closer) ==
    IF ts[Len(ts)].type = "EOI"
    THEN <<Token(opener[1], opener[2])>> \o Body(ts) \o <<Token(closer[1], closer[2]), ts[Len(ts)]>>
    ELSE <<Token(opener[1], opener[2])>> \o ts \o <<Token(closer[1], closer[2])>>

RoundOpen == <<(<<40>>), "LPAREN">>
RoundClose == <<(<<41>>), "RPAREN">>
SquareOpen == <<(<<91>>), "LBRACKET">>
SquareClose == <<(<<93>>), "RBRACKET">>

\* what a parser over the token sequence of the state in brackets returns,
\* with the mapping and the entry rule of the state
ParseWrapped(opener, closer) ==
    parse(Parser(Wrapped(m_TokenList, opener, closer), m_MapToOperator), m_EntryPoint)

\* the entry rule has accepted the token sequence
Accepted == Parsed /\ result.ok

\* the token sequence holds no EOI but, possibly, as its last token
NoInnerEOI == \A i \in 1..(Len(m_TokenList) - 1) : m_TokenList[i].type # "EOI"

\* in brackets of one kind the token sequence gives the expression it gives
\* alone, and in brackets of two kinds it gives an error
BracketsAddNoNode ==
    /\ SameExpression(ParseWrapped(RoundOpen, RoundClose), result)
    /\ SameExpression(ParseWrapped(SquareOpen, SquareClose), result)
    /\ ~ParseWrapped(RoundOpen, SquareClose).ok
    /\ ~ParseWrapped(SquareOpen, RoundClose).ok

\* C35 as stated: brackets add no node to the tree: for every token sequence
\* accepted by the entry rule, the sequence in round and in square brackets
\* parses to the same expression; '(' closed by ']' and '[' closed by ')'
\* make parse return an error.
C35_BracketsAddNoNode == Accepted => BracketsAddNoNode

\* C35 as amended: the same for the entry rules that come to clause() at the
\* first token (equivalence, implication, conjunction_disjunction, clause) and
\* the token sequences with no EOI before the last token.
C35_BracketsUnderClause ==
    (Accepted /\ m_EntryPoint \in ReachesClause /\ NoInnerEOI) => BracketsAddNoNode

\* a chain in square brackets has been accepted under conjunction_disjunction
\* and is accepted again inside round brackets
C35_Witness ==
    /\ Accepted /\ m_EntryPoint = "conjunction_disjunction"
    /\ Kinds(m_TokenList) \in BracketKindSeqs /\ m_TokenList[1].type = "LBRACKET"
    /\ ParseWrapped(RoundOpen, RoundClose).ok

\* the kind of the token at index, EOI at and past the end
KindAtCursor(tokens, index) ==
    IF index < Len(tokens) THEN tokens[index + 1].type ELSE "EOI"

\* C36: in every reachable state of the parser the stored lookahead is the
\* kind of the token at the cursor index, or EOI when the index is at or past
\* the end of the token sequence: after construction, after the reset in
\* parse, after every advance and after the rollback of predication.
C36_LookAheadIsTokenAtCursor ==
    /\ m_LookAhead = KindAtCursor(m_TokenList, m_Index)
    /\ \A i \in 1..Len(trace) : trace[i].la = KindAtCursor(m_TokenList, trace[i].idx)

\* a call that has advanced to the closing EOI inside a predication below
\* another rule and has then set the cursor back to the predicate symbol
C36_Witness ==
    /\ Parsed
    /\ \E i \in 1..Len(trace) :
          /\ trace[i].ev = "advance" /\ trace[i].la = "EOI" /\ trace[i].idx = Len(m_TokenList) - 1
    /\ \E i \in Restores : trace[i].idx > 0 /\ trace[i].la = "IDENTIFIER"
    /\ m_Index > 0 /\ m_LookAhead = "IDENTIFIER"

====
